---- MODULE Spec2Model ----
(***************************************************************************)
(* Verification model of the mujina miner.                                 *)
(*                                                                         *)
(* Each subsystem has its own variables and its own specification; a       *)
(* specification leaves the variables of the other subsystems at their     *)
(* initial values.                                                         *)
(*                                                                         *)
(*   Spec      thermal controller (thermal/state.rs, fan_pid.rs,           *)
(*             controller.rs)                                              *)
(*   SpecEn2   extranonce2 ranges (job_source/extranonce2.rs)              *)
(*   SpecAlarm debounced alarm (types/debounced_alarm.rs)                  *)
(*                                                                         *)
(* Option<T> is modelled as a sequence: None is <<>>, Some(x) is <<x>>.    *)
(***************************************************************************)
EXTENDS Integers, Sequences, FiniteSets, TLC

None == <<>>

Some(x) == <<x>>

Min2(a, b) == IF a <= b THEN a ELSE b

Max2(a, b) == IF a >= b THEN a ELSE b

\* f32::clamp / Ord::clamp
Clamp(x, lo, hi) == Max2(lo, Min2(x, hi))

(***************************************************************************)
(* Bounds of the model.                                                    *)
(***************************************************************************)

\* Temperatures are fixed-point: one unit is 1/TempScale degree Celsius.
TempScale == 2

\* The clock runs from 0 to MaxNow seconds, in steps of one tick period.
MaxNow == 20

\* Capacity of the bounded frequency-command channel.
FreqCapacity == 1

\* The ticks of a run of one temperature that are counted.
MaxRun == 4

\* The instant up to which the path of the thermal state is followed.
MaxSteadyNow == 30

(***************************************************************************)
(* Thermal controller: constants.                                          *)
(***************************************************************************)

NORMAL_THRESHOLD_C == 55 * TempScale

HYSTERESIS_C == 2 * TempScale

FAN_SPEED_NORMAL == 30

FAN_SPEED_COOLING == 50

FAN_SPEED_THROTTLING == 80

FAN_SPEED_CRITICAL == 100

FAN_SPEED_MIN == 0

FAN_SPEED_MAX == 100

TICK_DURATION == 5

FREQUENCY_ADJUSTMENT_INTERVAL == 20

FREQUENCY_OVER_TARGET_MARGIN_C == 5 * TempScale

ThermalState == {"NORMAL", "COOLING", "THROTTLING", "CRITICAL"}

FrequencyCommand == {"BumpUp", "BumpDown"}

\* ThermalConfig::default(): target 74, max 85.
DefaultConfig == [target_temperature_c |-> 74 * TempScale,
                  max_temperature_c |-> 85 * TempScale]

\* FanPIDController::new(1.0, 0.0, 1.0, -10.0, 10.0): the controller of the
\* tests, with an integral gain. integral_sum, integral_min and integral_max
\* are in 1/TempScale degree-seconds.
TestPid == [proportional_gain |-> 1, integral_sum |-> 0, integral_gain |-> 1,
            integral_min |-> -10 * TempScale, integral_max |-> 10 * TempScale]

\* ThermalController::new(config, fan_pid, ..): ThermalConfig has public fields
\* and no validation, and FanPIDController::new accepts any integral_sum. The
\* controllers of the model: the default configuration; another valid
\* configuration, constructed with an integral_sum outside its bounds; and a
\* configuration that violates 55 + 2 < target < max.
DefaultController == [config |-> DefaultConfig, fan_pid |-> TestPid]

Controllers ==
    { DefaultController,
      [config |-> [target_temperature_c |-> 60 * TempScale,
                   max_temperature_c |-> 75 * TempScale],
       fan_pid |-> [TestPid EXCEPT !.proportional_gain = 2,
                                   !.integral_sum = 25 * TempScale]],
      [config |-> [target_temperature_c |-> 50 * TempScale,
                   max_temperature_c |-> 54 * TempScale],
       fan_pid |-> TestPid] }

\* Scenario S5: the samples fed, one per tick (degrees).
S5Samples == <<40, 56, 60, 75, 86, 83, 72, 54>>

\* Temperature samples: at, just above (by 1/TempScale degree) and below every
\* threshold of the configuration, and, after the first k samples of scenario
\* S5 (0 <= k < 8), its next sample.
Temperatures(cfg, k) ==
    LET T == cfg.target_temperature_c
        M == cfg.max_temperature_c
    IN { NORMAL_THRESHOLD_C - HYSTERESIS_C, NORMAL_THRESHOLD_C, NORMAL_THRESHOLD_C + 1,
         T - HYSTERESIS_C, T, T + 1,
         T + FREQUENCY_OVER_TARGET_MARGIN_C - 1, T + FREQUENCY_OVER_TARGET_MARGIN_C,
         M - HYSTERESIS_C, M, M + 1 }
       \cup (IF cfg = DefaultConfig /\ k >= 0 /\ k < Len(S5Samples)
             THEN { S5Samples[k + 1] * TempScale }
             ELSE {})

(***************************************************************************)
(* State.                                                                  *)
(***************************************************************************)
VARIABLES
    \* ThermalController fields
    config,                 \* ThermalConfig
    fan_pid,                \* FanPIDController
    current_state,          \* ThermalState
    last_tick_time,         \* Option<Instant>
    last_frequency_adjust,  \* Option<Instant>
    \* channels of the controller
    temperature_rx,         \* watch::Receiver<Option<f32>>: the value it holds
    fan_speed_rx,           \* watch channel of FanSpeedCommand: the speed_percent it holds
    frequency_ch,           \* mpsc channel of FrequencyCommand: queued commands
    \* the controller task
    thermal_pc,             \* "idle", or "send": suspended in frequency_tx.send(cmd).await
    pending_cmd,            \* the command of the suspended send
    now,                    \* Instant::now(), seconds
    \* history: what the last tick did
    tick,
    \* history: progress of the S5 scenario
    s5

thermalVars == <<config, fan_pid, current_state, last_tick_time, last_frequency_adjust,
                 temperature_rx, fan_speed_rx, frequency_ch, thermal_pc, pending_cmd,
                 now, tick, s5>>

(***************************************************************************)
(* Thermal controller: pure functions.                                     *)
(***************************************************************************)

\* Mutant of from_temperature: NORMAL escalates already at the threshold.
from_temperature_at_threshold(temp, previous, cfg) ==
    CASE previous = "NORMAL" ->
            IF temp >= NORMAL_THRESHOLD_C THEN "COOLING" ELSE "NORMAL"
      [] previous = "COOLING" ->
            IF temp <= NORMAL_THRESHOLD_C - HYSTERESIS_C THEN "NORMAL"
            ELSE IF temp > cfg.target_temperature_c THEN "THROTTLING"
            ELSE "COOLING"
      [] previous = "THROTTLING" ->
            IF temp <= cfg.target_temperature_c - HYSTERESIS_C THEN "COOLING"
            ELSE IF temp > cfg.max_temperature_c THEN "CRITICAL"
            ELSE "THROTTLING"
      [] previous = "CRITICAL" ->
            IF temp <= cfg.max_temperature_c - HYSTERESIS_C THEN "THROTTLING"
            ELSE "CRITICAL"

\* Mutant of from_temperature: COOLING falls back to NORMAL without hysteresis.
from_temperature_no_hysteresis(temp, previous, cfg) ==
    CASE previous = "NORMAL" ->
            IF temp > NORMAL_THRESHOLD_C THEN "COOLING" ELSE "NORMAL"
      [] previous = "COOLING" ->
            IF temp <= NORMAL_THRESHOLD_C THEN "NORMAL"
            ELSE IF temp > cfg.target_temperature_c THEN "THROTTLING"
            ELSE "COOLING"
      [] previous = "THROTTLING" ->
            IF temp <= cfg.target_temperature_c - HYSTERESIS_C THEN "COOLING"
            ELSE IF temp > cfg.max_temperature_c THEN "CRITICAL"
            ELSE "THROTTLING"
      [] previous = "CRITICAL" ->
            IF temp <= cfg.max_temperature_c - HYSTERESIS_C THEN "THROTTLING"
            ELSE "CRITICAL"

\* Mutant of from_temperature: the state is the level of the temperature,
\* whatever the previous state.
from_temperature_by_level(temp, previous, cfg) ==
    IF temp > cfg.max_temperature_c THEN "CRITICAL"
    ELSE IF temp > cfg.target_temperature_c THEN "THROTTLING"
    ELSE IF temp > NORMAL_THRESHOLD_C THEN "COOLING"
    ELSE "NORMAL"

\* ThermalState::from_temperature
from_temperature(temp, previous, cfg) ==
    CASE previous = "NORMAL" ->
            IF temp > NORMAL_THRESHOLD_C THEN "COOLING" ELSE "NORMAL"
      [] previous = "COOLING" ->
            IF temp <= NORMAL_THRESHOLD_C - HYSTERESIS_C THEN "NORMAL"
            ELSE IF temp > cfg.target_temperature_c THEN "THROTTLING"
            ELSE "COOLING"
      [] previous = "THROTTLING" ->
            IF temp <= cfg.target_temperature_c - HYSTERESIS_C THEN "COOLING"
            ELSE IF temp > cfg.max_temperature_c THEN "CRITICAL"
            ELSE "THROTTLING"
      [] previous = "CRITICAL" ->
            IF temp <= cfg.max_temperature_c - HYSTERESIS_C THEN "THROTTLING"
            ELSE "CRITICAL"

\* state_severity, local to adjust_frequency
state_severity(state) ==
    CASE state = "NORMAL" -> 0
      [] state = "COOLING" -> 1
      [] state = "THROTTLING" -> 2
      [] state = "CRITICAL" -> 3

\* Mutant of FanPIDController_update: the accumulated integral is not clamped.
FanPIDController_update_unclamped(pid, error, dt_s, freeze_integral) ==
    LET sum == IF freeze_integral
               THEN pid.integral_sum
               ELSE pid.integral_sum + error * dt_s
    IN [pid |-> [pid EXCEPT !.integral_sum = sum],
        output |-> pid.proportional_gain * error + pid.integral_gain * sum]

\* FanPIDController::update: the controller after the call and the returned output.
FanPIDController_update(pid, error, dt_s, freeze_integral) ==
    LET sum == IF freeze_integral
               THEN pid.integral_sum
               ELSE Clamp(pid.integral_sum + error * dt_s, pid.integral_min, pid.integral_max)
    IN [pid |-> [pid EXCEPT !.integral_sum = sum],
        output |-> pid.proportional_gain * error + pid.integral_gain * sum]

\* FanPIDController::reset
FanPIDController_reset(pid) == [pid EXCEPT !.integral_sum = 0]

\* the base_speed match of adjust_fan_speed
base_speed(state) ==
    CASE state = "NORMAL" -> FAN_SPEED_NORMAL
      [] state = "COOLING" -> FAN_SPEED_COOLING
      [] state = "THROTTLING" -> FAN_SPEED_THROTTLING
      [] state = "CRITICAL" -> FAN_SPEED_CRITICAL

\* Mutant of speed_percent: only the lower limit is applied.
speed_percent_no_upper_limit(base, pid_output) ==
    Max2(base * TempScale + pid_output, FAN_SPEED_MIN * TempScale) \div TempScale

\* (base_speed as f32 + pid_output).clamp(FAN_SPEED_MIN, FAN_SPEED_MAX) as u8:
\* the sum is clamped, then the cast drops the fractional part.
speed_percent(base, pid_output) ==
    Clamp(base * TempScale + pid_output, FAN_SPEED_MIN * TempScale, FAN_SPEED_MAX * TempScale)
        \div TempScale

\* ThermalController::adjust_fan_speed, with self.current_state already the new
\* state: the controller after the call and the published speed.
adjust_fan_speed(pid, cfg, state, temperature, time_since_last_tick, state_changed) ==
    LET error == temperature - cfg.target_temperature_c
        freeze_integral == state \in {"NORMAL", "CRITICAL"}
        upd == FanPIDController_update(pid, error, time_since_last_tick, freeze_integral)
        pid2 == IF state_changed /\ state = "NORMAL"
                THEN FanPIDController_reset(upd.pid)
                ELSE upd.pid
    IN [pid |-> pid2, speed |-> speed_percent(base_speed(state), upd.output)]

\* Mutant of cooldown_active: the cooldown still holds at exactly the interval.
cooldown_active_inclusive(last_adjust, t) ==
    IF last_adjust = None THEN FALSE
    ELSE t - last_adjust[1] <= FREQUENCY_ADJUSTMENT_INTERVAL

\* cooldown_active of adjust_frequency
cooldown_active(last_adjust, t) ==
    IF last_adjust = None THEN FALSE
    ELSE t - last_adjust[1] < FREQUENCY_ADJUSTMENT_INTERVAL

\* Mutant of frequency_command: the severity comparison is reversed.
frequency_command_reversed(cfg, previous_state, state, state_changed, temperature, t, last_adjust) ==
    IF ~state_changed
    THEN LET over_target ==
                 temperature >= cfg.target_temperature_c + FREQUENCY_OVER_TARGET_MARGIN_C
             throttling == state \in {"THROTTLING", "CRITICAL"}
         IN IF throttling /\ over_target /\ ~cooldown_active(last_adjust, t)
            THEN Some("BumpDown")
            ELSE None
    ELSE IF state_severity(state) < state_severity(previous_state)
         THEN Some("BumpDown")
         ELSE Some("BumpUp")

\* ThermalController::adjust_frequency: the command it sends, if any.
frequency_command(cfg, previous_state, state, state_changed, temperature, t, last_adjust) ==
    IF ~state_changed
    THEN LET over_target ==
                 temperature >= cfg.target_temperature_c + FREQUENCY_OVER_TARGET_MARGIN_C
             throttling == state \in {"THROTTLING", "CRITICAL"}
         IN IF throttling /\ over_target /\ ~cooldown_active(last_adjust, t)
            THEN Some("BumpDown")
            ELSE None
    ELSE IF state_severity(state) > state_severity(previous_state)
         THEN Some("BumpDown")
         ELSE Some("BumpUp")

(***************************************************************************)
(* Scenario S5: its progress.                                              *)
(***************************************************************************)
S5Off == [i |-> -1, downs |-> 0, ups |-> 0]

\* The scenario's progress after a tick that read `temperature` and sent `cmd`.
S5Step(m, cfg, temperature, cmd) ==
    IF /\ m.i >= 0
       /\ m.i < Len(S5Samples)
       /\ cfg = DefaultConfig
       /\ temperature = S5Samples[m.i + 1] * TempScale
    THEN [i |-> m.i + 1,
          downs |-> m.downs + (IF cmd = Some("BumpDown") THEN 1 ELSE 0),
          ups |-> m.ups + (IF cmd = Some("BumpUp") THEN 1 ELSE 0)]
    ELSE S5Off

(***************************************************************************)
(* Thermal controller: initial state and actions.                          *)
(***************************************************************************)
\* kind: "none" before the first tick, then "nosample" or "sample"; seq changes
\* with every tick; last_cmd_at is the instant (taken at the start of its tick)
\* of the last FrequencyCommand handed to frequency_tx.send.
NoTick == [kind |-> "none", seq |-> 0, previous_state |-> "NORMAL", freq_cmd |-> None,
           fan_published |-> 0, last_cmd_at |-> None]

\* ThermalController::new, and the channels as their creator leaves them.
ThermalStart(c) ==
    /\ config = c.config
    /\ fan_pid = c.fan_pid
    /\ current_state = "NORMAL"
    /\ last_tick_time = None
    /\ last_frequency_adjust = None
    /\ temperature_rx = None
    /\ fan_speed_rx = 0
    /\ frequency_ch = <<>>
    /\ thermal_pc = "idle"
    /\ pending_cmd = None
    /\ now = 0
    /\ tick = NoTick
    /\ s5 = [i |-> 0, downs |-> 0, ups |-> 0]

InitThermal == \E c \in Controllers : ThermalStart(c)

\* Time passes.
Advance ==
    /\ now + TICK_DURATION <= MaxNow
    /\ now' = now + TICK_DURATION
    /\ UNCHANGED <<config, fan_pid, current_state, last_tick_time, last_frequency_adjust,
                   temperature_rx, fan_speed_rx, frequency_ch, thermal_pc, pending_cmd,
                   tick, s5>>

\* The consumer of the frequency channel takes the oldest command.
FrequencyRecv ==
    /\ frequency_ch # <<>>
    /\ frequency_ch' = Tail(frequency_ch)
    /\ UNCHANGED <<config, fan_pid, current_state, last_tick_time, last_frequency_adjust,
                   temperature_rx, fan_speed_rx, thermal_pc, pending_cmd, now, tick, s5>>

\* Mutant of read_temperature: a missing sample is read as 0 degrees.
read_temperature_or_zero(sample) == IF sample = None THEN Some(0) ELSE sample

\* The match on *self.temperature_rx.borrow() at the head of tick: Some(temp)
\* goes on with temp, None returns.
read_temperature(sample) == sample

\* ThermalController::tick with the watch channel holding `sample`, up to its
\* return or to the point where frequency_tx.send(cmd).await suspends on a
\* full channel.
TickWith(sample) ==
    /\ thermal_pc = "idle"
    /\ temperature_rx' = sample
    /\ IF read_temperature(sample) = None
       THEN /\ tick' = [NoTick EXCEPT !.kind = "nosample", !.seq = 1 - tick.seq,
                                      !.previous_state = current_state,
                                      !.last_cmd_at = tick.last_cmd_at]
            /\ UNCHANGED <<config, fan_pid, current_state, last_tick_time,
                           last_frequency_adjust, fan_speed_rx,
                           frequency_ch, thermal_pc, pending_cmd, now, s5>>
       ELSE LET temperature == read_temperature(sample)[1]
                time_since_last_tick ==
                    IF last_tick_time = None THEN TICK_DURATION ELSE now - last_tick_time[1]
                new_state == from_temperature(temperature, current_state, config)
                previous_state == current_state
                state_changed == new_state # current_state
                fan == adjust_fan_speed(fan_pid, config, new_state, temperature,
                                        time_since_last_tick, state_changed)
                cmd == frequency_command(config, previous_state, new_state, state_changed,
                                         temperature, now, last_frequency_adjust)
            IN /\ last_tick_time' = Some(now)
               /\ current_state' = new_state
               /\ fan_pid' = fan.pid
               /\ fan_speed_rx' = fan.speed
               /\ IF cmd = None
                  THEN UNCHANGED <<frequency_ch, thermal_pc, pending_cmd, last_frequency_adjust>>
                  ELSE IF Len(frequency_ch) < FreqCapacity
                       THEN /\ frequency_ch' = Append(frequency_ch, cmd[1])
                            /\ last_frequency_adjust' = Some(now)
                            /\ UNCHANGED <<thermal_pc, pending_cmd>>
                       ELSE /\ thermal_pc' = "send"
                            /\ pending_cmd' = cmd
                            /\ UNCHANGED <<frequency_ch, last_frequency_adjust>>
               /\ tick' = [kind |-> "sample", seq |-> 1 - tick.seq,
                           previous_state |-> previous_state, freq_cmd |-> cmd,
                           fan_published |-> 1,
                           last_cmd_at |-> IF cmd = None THEN tick.last_cmd_at ELSE Some(now)]
               /\ s5' = S5Step(s5, config, temperature, cmd)
               /\ UNCHANGED <<config, now>>

\* An interval tick; the watch channel holds what the board's monitoring loop
\* published last.
Tick ==
    \E sample \in {None} \cup { Some(t) : t \in Temperatures(config, s5.i) } :
        TickWith(sample)

\* The suspended send completes once the channel has room; adjust_frequency
\* then records the instant the tick took at its start.
FinishSend ==
    /\ thermal_pc = "send"
    /\ Len(frequency_ch) < FreqCapacity
    /\ frequency_ch' = Append(frequency_ch, pending_cmd[1])
    /\ last_frequency_adjust' = last_tick_time
    /\ thermal_pc' = "idle"
    /\ pending_cmd' = None
    /\ UNCHANGED <<config, fan_pid, current_state, last_tick_time, temperature_rx,
                   fan_speed_rx, now, tick, s5>>

(***************************************************************************)
(* Extranonce2 (job_source/extranonce2.rs).                                *)
(*                                                                         *)
(* A u64 is a sequence of four 16-bit limbs, most significant first, so    *)
(* that the full 64-bit width and its overflow are kept. Results are       *)
(* records with a tag; a panic (a failed expect, an overflow in a build    *)
(* with overflow checks) is the result Panic.                              *)
(***************************************************************************)

\* The values 0..MaxEn2Value are used as range limits.
MaxEn2Value == 3

\* split(n) is called with n in 0..MaxSplit.
MaxSplit == 4

\* At most MaxEn2Calls calls are made on a template.
MaxEn2Calls == 3

\* The largest extranonce2 size in bytes (the width of u64).
MAX_SIZE == 8

\* One limb of a u64 holds the values 0..LIMB-1.
LIMB == 2 ^ 16

\* The u64 of a natural number below 2^31.
U64Of(x) == <<0, 0, x \div LIMB, x % LIMB>>

U64_ZERO == U64Of(0)

U64_ONE == U64Of(1)

U64_MAX == <<LIMB - 1, LIMB - 1, LIMB - 1, LIMB - 1>>

\* a < b on u64
U64Lt(a, b) ==
    \E i \in 1..4 : a[i] < b[i] /\ \A j \in 1..(i - 1) : a[j] = b[j]

\* a <= b on u64
U64Le(a, b) == ~U64Lt(b, a)

\* a + b on u64: the wrapped sum, and whether it overflowed.
U64WrappingAdd(a, b) ==
    LET s4 == a[4] + b[4]
        s3 == a[3] + b[3] + s4 \div LIMB
        s2 == a[2] + b[2] + s3 \div LIMB
        s1 == a[1] + b[1] + s2 \div LIMB
    IN [v |-> <<s1 % LIMB, s2 % LIMB, s3 % LIMB, s4 % LIMB>>, overflow |-> s1 >= LIMB]

\* a - b on u64: the wrapped difference, and whether it overflowed.
U64WrappingSub(a, b) ==
    LET d4 == a[4] - b[4]
        d3 == a[3] - b[3] - (IF d4 < 0 THEN 1 ELSE 0)
        d2 == a[2] - b[2] - (IF d3 < 0 THEN 1 ELSE 0)
        d1 == a[1] - b[1] - (IF d2 < 0 THEN 1 ELSE 0)
    IN [v |-> <<d1 % LIMB, d2 % LIMB, d3 % LIMB, d4 % LIMB>>, overflow |-> d1 < 0]

\* The operators + and - of Rust on u64: an overflow panics (None) in a build
\* with overflow checks and wraps in a build without.
U64Checked(r, checks) == IF r.overflow /\ checks THEN None ELSE Some(r.v)

U64Add(a, b, checks) == U64Checked(U64WrappingAdd(a, b), checks)

U64Sub(a, b, checks) == U64Checked(U64WrappingSub(a, b), checks)

\* a / n and a % n on u64 for a small divisor n > 0.
U64DivMod(a, n) ==
    LET x1 == a[1]
        x2 == (x1 % n) * LIMB + a[2]
        x3 == (x2 % n) * LIMB + a[3]
        x4 == (x3 % n) * LIMB + a[4]
    IN [quot |-> <<x1 \div n, x2 \div n, x3 \div n, x4 \div n>>, rem |-> x4 % n]

\* `a as usize`: the low bits of a that fit the pointer width of the target.
AsUsize(a, usize_bits) == IF usize_bits = 32 THEN <<0, 0, a[3], a[4]>> ELSE a

Panic == [tag |-> "Panic"]

Unit == [tag |-> "Unit"]

NoneResult == [tag |-> "None"]

SomeResult(x) == [tag |-> "Some", v |-> x]

OkResult(x) == [tag |-> "Ok", v |-> x]

ErrResult(e) == [tag |-> "Err", err |-> e]

\* Sizes passed to the constructors: the smallest, the one whose full range
\* holds 2^32 values, the largest, and the invalid ones next to the limits.
En2Sizes == {0, 1, 4, MAX_SIZE, MAX_SIZE + 1}

\* Limits passed to new_range: small values, the limit used by the tests and
\* by scenario S3, the largest value of one byte and the next one, and the
\* largest value of the word.
En2Values == {U64Of(x) : x \in (0..MaxEn2Value) \cup {99, 255, 256}} \cup {U64_MAX}

\* Extranonce2::max_for_size: (1u64 << (size * 8)) - 1, or u64::MAX for size >= 8.
max_for_size(size) ==
    IF size >= MAX_SIZE THEN U64_MAX
    ELSE [k \in 1..4 |->
            IF 8 * size >= 16 * (5 - k) THEN LIMB - 1
            ELSE IF 8 * size >= 16 * (4 - k) + 8 THEN 255
            ELSE 0]

\* Extranonce2::new
Extranonce2_new(value, size) ==
    IF size = 0 \/ size > MAX_SIZE THEN ErrResult("InvalidSize")
    ELSE IF U64Lt(max_for_size(size), value) THEN ErrResult("ValueTooLarge")
    ELSE OkResult([value |-> value, size |-> size])

\* Extranonce2Template::new
Extranonce2Template_new(size) ==
    IF size = 0 \/ size > MAX_SIZE THEN ErrResult("InvalidSize")
    ELSE OkResult([min |-> U64_ZERO, max |-> max_for_size(size),
                   current |-> U64_ZERO, size |-> size])

\* Extranonce2Template::new_range
Extranonce2Template_new_range(min, max, size) ==
    IF size = 0 \/ size > MAX_SIZE THEN ErrResult("InvalidSize")
    ELSE IF U64Le(max, min) THEN ErrResult("InvalidRange")
    ELSE IF U64Lt(max_for_size(size), max) THEN ErrResult("ValueTooLarge")
    ELSE OkResult([min |-> min, max |-> max, current |-> min, size |-> size])

\* Extranonce2Template::current: Extranonce2::new(..).expect(..)
Extranonce2Template_current(t) ==
    LET r == Extranonce2_new(t.current, t.size)
    IN IF r.tag = "Ok" THEN r ELSE Panic

\* self.current += 1 under the guard current < max, where it cannot overflow.
IncrementCursor(t) == [t EXCEPT !.current = U64WrappingAdd(t.current, U64_ONE).v]

\* Extranonce2Template::next: the template after the call and the returned value.
Extranonce2Template_next(t) ==
    IF U64Le(t.max, t.current)
    THEN [t |-> t, out |-> NoneResult]
    ELSE LET c == Extranonce2Template_current(IncrementCursor(t))
         IN [t |-> IncrementCursor(t),
             out |-> IF c = Panic THEN Panic ELSE SomeResult(c.v)]

\* Mutant of Extranonce2Template_increment: the cursor may step past max.
Extranonce2Template_increment_past_max(t) ==
    IF U64Lt(t.max, t.current)
    THEN [t |-> t, out |-> OkResult(FALSE)]
    ELSE [t |-> IncrementCursor(t), out |-> OkResult(TRUE)]

\* Extranonce2Template::increment: the template after the call and the returned value.
Extranonce2Template_increment(t) ==
    IF U64Le(t.max, t.current)
    THEN [t |-> t, out |-> OkResult(FALSE)]
    ELSE [t |-> IncrementCursor(t), out |-> OkResult(TRUE)]

\* Extranonce2Template::reset
Extranonce2Template_reset(t) == [t EXCEPT !.current = t.min]

\* Extranonce2Template::search_space: self.max - self.min + 1
Extranonce2Template_search_space(t, checks) ==
    LET diff == U64Sub(t.max, t.min, checks)
    IN IF diff = None THEN None ELSE U64Add(diff[1], U64_ONE, checks)

\* The loop of split from iteration i on, with its `start` and the ranges
\* pushed so far.
RECURSIVE SplitLoop(_, _, _, _, _, _, _, _)
SplitLoop(t, n, chunk_size, remainder, i, start, ranges, checks) ==
    IF i >= n THEN SomeResult(ranges)
    ELSE LET size == U64Add(chunk_size, IF i < remainder THEN U64_ONE ELSE U64_ZERO, checks)
             sum == IF size = None THEN None ELSE U64Add(start, size[1], checks)
             end == IF sum = None THEN None ELSE U64Sub(sum[1], U64_ONE, checks)
             r == IF end = None THEN Panic
                  ELSE Extranonce2Template_new_range(start, end[1], t.size)
             next_start == IF end = None THEN None ELSE U64Add(end[1], U64_ONE, checks)
         IN IF r.tag # "Ok" \/ next_start = None
            THEN Panic
            ELSE SplitLoop(t, n, chunk_size, remainder, i + 1, next_start[1],
                           Append(ranges, r.v), checks)

\* Extranonce2Template::split
Extranonce2Template_split(t, n, checks, usize_bits) ==
    IF n = 0 THEN NoneResult
    ELSE IF n = 1 THEN SomeResult(<<t>>)
    ELSE LET total == Extranonce2Template_search_space(t, checks)
         IN IF total = None THEN Panic
            ELSE IF U64Lt(AsUsize(total[1], usize_bits), U64Of(n)) THEN NoneResult
            ELSE SplitLoop(t, n, U64DivMod(total[1], n).quot, U64DivMod(total[1], n).rem,
                           0, t.min, <<>>, checks)

VARIABLES
    template,         \* Option<Extranonce2Template>: the template in use
    en2_last,         \* history: the last call, the template before it, and its result
    en2_calls,        \* number of calls made
    overflow_checks,  \* build: whether integer overflow panics (or wraps)
    usize_bits        \* build: the pointer width of the target, 32 or 64

buildVars == <<overflow_checks, usize_bits>>

en2Vars == <<template, en2_last, en2_calls, buildVars>>

En2Call(op, arg, out) == [op |-> op, arg |-> arg, before |-> template, out |-> out]

En2Start ==
    /\ template = None
    /\ en2_last = [op |-> "none", arg |-> <<>>, before |-> None, out |-> Unit]
    /\ en2_calls = 0

InitEn2 == En2Start /\ overflow_checks \in BOOLEAN /\ usize_bits \in {32, 64}

En2Idle == En2Start /\ overflow_checks = FALSE /\ usize_bits = 64

\* A call can be made: the bound is not reached and no call has panicked. The
\* first call constructs the template; a failed construction leaves none.
En2CanCall == en2_calls < MaxEn2Calls /\ en2_last.out # Panic

\* Extranonce2Template::new(size), the construction of the template
En2New ==
    \E size \in En2Sizes :
        LET r == Extranonce2Template_new(size)
        IN /\ En2CanCall
           /\ en2_last.op = "none"
           /\ template' = IF r.tag = "Ok" THEN Some(r.v) ELSE template
           /\ en2_last' = En2Call("new", <<size>>, r)
           /\ en2_calls' = en2_calls + 1
           /\ UNCHANGED buildVars

\* Extranonce2Template::new_range(min, max, size), the construction of the template
En2NewRange ==
    \E min \in En2Values, max \in En2Values, size \in En2Sizes :
        LET r == Extranonce2Template_new_range(min, max, size)
        IN /\ En2CanCall
           /\ en2_last.op = "none"
           /\ template' = IF r.tag = "Ok" THEN Some(r.v) ELSE template
           /\ en2_last' = En2Call("new_range", <<min, max, size>>, r)
           /\ en2_calls' = en2_calls + 1
           /\ UNCHANGED buildVars

\* template.current()
En2Current ==
    /\ En2CanCall
    /\ template # None
    /\ en2_last' = En2Call("current", <<>>, Extranonce2Template_current(template[1]))
    /\ en2_calls' = en2_calls + 1
    /\ UNCHANGED <<template, buildVars>>

\* template.next()
En2Next ==
    /\ En2CanCall
    /\ template # None
    /\ LET r == Extranonce2Template_next(template[1])
       IN /\ template' = Some(r.t)
          /\ en2_last' = En2Call("next", <<>>, r.out)
    /\ en2_calls' = en2_calls + 1
    /\ UNCHANGED buildVars

\* template.increment()
En2Increment ==
    /\ En2CanCall
    /\ template # None
    /\ LET r == Extranonce2Template_increment(template[1])
       IN /\ template' = Some(r.t)
          /\ en2_last' = En2Call("increment", <<>>, r.out)
    /\ en2_calls' = en2_calls + 1
    /\ UNCHANGED buildVars

\* template.reset()
En2Reset ==
    /\ En2CanCall
    /\ template # None
    /\ template' = Some(Extranonce2Template_reset(template[1]))
    /\ en2_last' = En2Call("reset", <<>>, Unit)
    /\ en2_calls' = en2_calls + 1
    /\ UNCHANGED buildVars

\* template.search_space()
En2SearchSpace ==
    /\ En2CanCall
    /\ template # None
    /\ LET r == Extranonce2Template_search_space(template[1], overflow_checks)
       IN en2_last' = En2Call("search_space", <<>>,
                              IF r = None THEN Panic ELSE OkResult(r[1]))
    /\ en2_calls' = en2_calls + 1
    /\ UNCHANGED <<template, buildVars>>

\* template.split(n)
En2Split ==
    \E n \in 0..MaxSplit :
        /\ En2CanCall
        /\ template # None
        /\ en2_last' = En2Call("split", <<n>>,
                               Extranonce2Template_split(template[1], n, overflow_checks,
                                                         usize_bits))
        /\ en2_calls' = en2_calls + 1
        /\ UNCHANGED <<template, buildVars>>

\* The caller goes on with one of the ranges the last split returned.
En2Adopt ==
    /\ en2_last.op = "split"
    /\ en2_last.out.tag = "Some"
    /\ \E k \in 1..Len(en2_last.out.v) : template' = Some(en2_last.out.v[k])
    /\ en2_last' = En2Call("adopt", <<>>, Unit)
    /\ UNCHANGED <<en2_calls, buildVars>>

(***************************************************************************)
(* DebouncedAlarm (types/debounced_alarm.rs).                              *)
(***************************************************************************)

\* The debounce of the alarm is one of 0..MaxDebounce seconds.
MaxDebounce == 3

\* The clock of the alarm runs from 0 to MaxAlarmNow seconds.
MaxAlarmNow == 6

AlarmStatus == {"Idle", "Pending", "Triggered", "Active", "Resolved"}

\* enum State
StateIdle == [tag |-> "Idle"]

StateTiming(since) == [tag |-> "Timing", since |-> since]

StateFired == [tag |-> "Fired"]

\* DebouncedAlarm::new
DebouncedAlarm_new(debounce) == [debounce |-> debounce, state |-> StateIdle]

\* Mutant of DebouncedAlarm_check: the debounce must be exceeded, not reached.
DebouncedAlarm_check_exceeded(a, condition, t) ==
    CASE a.state.tag = "Idle" /\ ~condition ->
            [alarm |-> a, status |-> "Idle"]
      [] a.state.tag = "Idle" /\ condition ->
            [alarm |-> [a EXCEPT !.state = StateTiming(t)], status |-> "Pending"]
      [] a.state.tag = "Timing" /\ ~condition ->
            [alarm |-> [a EXCEPT !.state = StateIdle], status |-> "Idle"]
      [] a.state.tag = "Timing" /\ condition ->
            IF t - a.state.since > a.debounce
            THEN [alarm |-> [a EXCEPT !.state = StateFired], status |-> "Triggered"]
            ELSE [alarm |-> a, status |-> "Pending"]
      [] a.state.tag = "Fired" /\ ~condition ->
            [alarm |-> [a EXCEPT !.state = StateIdle], status |-> "Resolved"]
      [] a.state.tag = "Fired" /\ condition ->
            [alarm |-> a, status |-> "Active"]

\* Mutant of DebouncedAlarm_check: a false reading leaves the timing window open.
DebouncedAlarm_check_accumulating(a, condition, t) ==
    CASE a.state.tag = "Idle" /\ ~condition ->
            [alarm |-> a, status |-> "Idle"]
      [] a.state.tag = "Idle" /\ condition ->
            [alarm |-> [a EXCEPT !.state = StateTiming(t)], status |-> "Pending"]
      [] a.state.tag = "Timing" /\ ~condition ->
            [alarm |-> a, status |-> "Idle"]
      [] a.state.tag = "Timing" /\ condition ->
            IF t - a.state.since >= a.debounce
            THEN [alarm |-> [a EXCEPT !.state = StateFired], status |-> "Triggered"]
            ELSE [alarm |-> a, status |-> "Pending"]
      [] a.state.tag = "Fired" /\ ~condition ->
            [alarm |-> [a EXCEPT !.state = StateIdle], status |-> "Resolved"]
      [] a.state.tag = "Fired" /\ condition ->
            [alarm |-> a, status |-> "Active"]

\* DebouncedAlarm::check at time t: the alarm after the call and the returned status.
DebouncedAlarm_check(a, condition, t) ==
    CASE a.state.tag = "Idle" /\ ~condition ->
            [alarm |-> a, status |-> "Idle"]
      [] a.state.tag = "Idle" /\ condition ->
            [alarm |-> [a EXCEPT !.state = StateTiming(t)], status |-> "Pending"]
      [] a.state.tag = "Timing" /\ ~condition ->
            [alarm |-> [a EXCEPT !.state = StateIdle], status |-> "Idle"]
      [] a.state.tag = "Timing" /\ condition ->
            IF t - a.state.since >= a.debounce
            THEN [alarm |-> [a EXCEPT !.state = StateFired], status |-> "Triggered"]
            ELSE [alarm |-> a, status |-> "Pending"]
      [] a.state.tag = "Fired" /\ ~condition ->
            [alarm |-> [a EXCEPT !.state = StateIdle], status |-> "Resolved"]
      [] a.state.tag = "Fired" /\ condition ->
            [alarm |-> a, status |-> "Active"]

\* DebouncedAlarm::reset
DebouncedAlarm_reset(a) == [a EXCEPT !.state = StateIdle]

VARIABLES
    alarm,        \* DebouncedAlarm: debounce and state
    alarm_now,    \* tokio Instant::now(), seconds
    alarm_last,   \* history: the last call, the one before it, and what it returned
    alarm_trace   \* history of the trace of calls, kept from the calls and their results

alarmVars == <<alarm, alarm_now, alarm_last, alarm_trace>>

\* The trace so far: the time of the first call of the current uninterrupted
\* run of check(true) calls (None outside a run), the number of Triggered and
\* of Resolved results since the alarm was last Idle, the result of the call
\* before the last one, and the number of runs begun (each counted up to 2).
TraceStart ==
    [run_start |-> None, triggered |-> 0, resolved |-> 0,
     prev_status |-> "Idle", episodes |-> 0]

TraceAfterCheck(tr, a, condition, t, status, last_status) ==
    LET from_idle == a.state = StateIdle
        triggered == IF from_idle THEN 0 ELSE tr.triggered
        resolved == IF from_idle THEN 0 ELSE tr.resolved
        begins == condition /\ tr.run_start = None
    IN [run_start |-> IF ~condition THEN None
                      ELSE IF begins THEN Some(t) ELSE tr.run_start,
        triggered |-> Min2(2, triggered + (IF status = "Triggered" THEN 1 ELSE 0)),
        resolved |-> Min2(2, resolved + (IF status = "Resolved" THEN 1 ELSE 0)),
        prev_status |-> last_status,
        episodes |-> IF begins THEN Min2(2, tr.episodes + 1) ELSE tr.episodes]

TraceAfterReset(tr, last_status) ==
    [tr EXCEPT !.run_start = None, !.prev_status = last_status]

AlarmStart(debounce) ==
    /\ alarm = DebouncedAlarm_new(debounce)
    /\ alarm_now = 0
    /\ alarm_last = [op |-> "none", prev_op |-> "none", condition |-> FALSE,
                     before |-> DebouncedAlarm_new(debounce), at |-> 0, status |-> "Idle"]
    /\ alarm_trace = TraceStart

InitAlarm == \E debounce \in 0..MaxDebounce : AlarmStart(debounce)

AlarmIdle == AlarmStart(1)

\* Time passes.
AlarmAdvance ==
    /\ alarm_now < MaxAlarmNow
    /\ alarm_now' = alarm_now + 1
    /\ UNCHANGED <<alarm, alarm_last, alarm_trace>>

\* alarm.check(condition)
AlarmCheck ==
    \E condition \in BOOLEAN :
        LET r == DebouncedAlarm_check(alarm, condition, alarm_now)
        IN /\ alarm' = r.alarm
           /\ alarm_last' = [op |-> "check", prev_op |-> alarm_last.op,
                             condition |-> condition, before |-> alarm,
                             at |-> alarm_now, status |-> r.status]
           /\ alarm_trace' = TraceAfterCheck(alarm_trace, alarm, condition, alarm_now,
                                             r.status, alarm_last.status)
           /\ UNCHANGED alarm_now

\* alarm.reset()
AlarmReset ==
    /\ alarm' = DebouncedAlarm_reset(alarm)
    /\ alarm_last' = [op |-> "reset", prev_op |-> alarm_last.op, condition |-> FALSE,
                      before |-> alarm, at |-> alarm_now, status |-> "Idle"]
    /\ alarm_trace' = TraceAfterReset(alarm_trace, alarm_last.status)
    /\ UNCHANGED alarm_now

(***************************************************************************)
(* Stratum v1 job source (job_source/stratum_v1.rs).                       *)
(***************************************************************************)

\* A hashrate is a whole number of units; HashRateScale units are the
\* hashrate that finds one share of difficulty 1 every 3 seconds.
HashRateScale == 2

\* The scheduler reports hashrates of 0..MaxHashRate units.
MaxHashRate == 8

\* The scheduler's event channel holds at most EventCapacity events.
EventCapacity == 1

\* The client's command channel holds at most CommandCapacity commands.
CommandCapacity == 1

\* A u32 is two 16-bit limbs, the high one first.
U32(hi, lo) == <<hi, lo>>

RECURSIVE BitAnd(_, _)
\* a & b on naturals
BitAnd(a, b) ==
    IF a = 0 \/ b = 0 THEN 0
    ELSE (a % 2) * (b % 2) + 2 * BitAnd(a \div 2, b \div 2)

\* Mutant of U32And: the rolled version goes out unmasked.
U32And_unmasked(a, b) == a

\* a & b on u32
U32And(a, b) == <<BitAnd(a[1], b[1]), BitAnd(a[2], b[2])>>

\* `size as u8`
AsU8(size) == size % 256

\* u64::to_le_bytes
ToLeBytes(v) ==
    [i \in 1..8 |->
        LET limb == v[4 - (i - 1) \div 2]
        IN IF i % 2 = 1 THEN limb % 256 ELSE limb \div 256]

\* impl From<Extranonce2> for Vec<u8>: the low `size` bytes, little-endian.
Extranonce2_to_vec(ext) == SubSeq(ToLeBytes(ext.value), 1, ext.size)

\* vec![0; n]
ZeroVec(n) == [i \in 1..n |-> 0]

\* GeneralPurposeBits::none
GeneralPurposeBits_none == 0

\* GeneralPurposeBits::from(&mask.to_be_bytes()): bits 13..28 of the mask.
GeneralPurposeBits_from(mask) == (mask[1] % (2 ^ 13)) * 8 + mask[2] \div (2 ^ 13)

\* VersionTemplate::new
VersionTemplate_new(version, gp_bits_mask) ==
    OkResult([base |-> version, gp_bits_mask |-> gp_bits_mask])

\* A target is MAX_TARGET / divisor; Target::MAX is MAX_TARGET / 1.
\* impl From<u64> for Difficulty
Difficulty_from(diff) ==
    IF diff = 0 THEN [target |-> [max_target_div |-> 1]]
    ELSE [target |-> [max_target_div |-> diff]]

\* Difficulty::to_target
Difficulty_to_target(difficulty) == difficulty.target

\* struct ProtocolState
ProtocolState(extranonce1, extranonce2_size, share_difficulty, version_mask) ==
    [extranonce1 |-> extranonce1, extranonce2_size |-> extranonce2_size,
     share_difficulty |-> share_difficulty, version_mask |-> version_mask]

\* StratumV1Source::job_to_template. The job's prev_hash, nbits, ntime,
\* coinbase parts and merkle branches are copied as they are, like its id.
job_to_template(st, job) ==
    IF st = None THEN ErrResult("No protocol state")
    ELSE LET s == st[1]
             extranonce2_range == Extranonce2Template_new(AsU8(s.extranonce2_size))
             gp_bits_mask == IF s.version_mask = None THEN GeneralPurposeBits_none
                             ELSE GeneralPurposeBits_from(s.version_mask[1])
             version_template == VersionTemplate_new(job.version, gp_bits_mask)
             share_difficulty == IF s.share_difficulty = None THEN Difficulty_from(1)
                                 ELSE s.share_difficulty[1]
         IN IF extranonce2_range.tag = "Err" THEN extranonce2_range
            ELSE IF version_template.tag = "Err" THEN version_template
            ELSE OkResult([id |-> job.job_id,
                           version |-> version_template.v,
                           share_target |-> Difficulty_to_target(share_difficulty),
                           extranonce1 |-> s.extranonce1,
                           extranonce2_range |-> extranonce2_range.v])

\* StratumV1Source::share_to_submit_params
share_to_submit_params(st, username, share) ==
    IF st = None THEN ErrResult("No protocol state")
    ELSE LET s == st[1]
             extranonce2 == IF share.extranonce2 = None THEN ZeroVec(s.extranonce2_size)
                            ELSE Extranonce2_to_vec(share.extranonce2[1])
             version_bits == IF s.version_mask = None THEN None
                             ELSE Some(U32And(share.version, s.version_mask[1]))
         IN OkResult([username |-> username, job_id |-> share.job_id,
                      extranonce2 |-> extranonce2, ntime |-> share.time,
                      nonce |-> share.nonce, version_bits |-> version_bits])

\* target_for_share_rate, Difficulty::from_target and Difficulty::as_u64: the
\* whole difficulty at which `hashrate` finds a share every 3 seconds.
DifficultyForShareRate(hashrate) == hashrate \div HashRateScale

\* StratumV1Source::compute_suggested_difficulty
compute_suggested_difficulty(hashrate) ==
    IF hashrate = 0 THEN None
    ELSE Some(Max2(DifficultyForShareRate(hashrate), 1))

\* MATERIAL_CHANGE_FACTOR: f64 = 2.0
MATERIAL_CHANGE_FACTOR == 2

\* Mutant of material_change: every difficulty is a material change.
material_change_always(new_diff, last) == TRUE

\* Mutant of material_change: only a growth of the difficulty is material.
material_change_growth_only(new_diff, last) ==
    IF last = None THEN TRUE
    ELSE new_diff >= MATERIAL_CHANGE_FACTOR * last[1]

\* The test of maybe_suggest_difficulty on the ratio new_diff / prev of two
\* difficulties that f64 holds exactly: ratio >= MATERIAL_CHANGE_FACTOR or
\* ratio <= 1.0 / MATERIAL_CHANGE_FACTOR.
material_change(new_diff, last) ==
    IF last = None THEN TRUE
    ELSE \/ new_diff >= MATERIAL_CHANGE_FACTOR * last[1]
         \/ MATERIAL_CHANGE_FACTOR * new_diff <= last[1]

\* StratumV1Source::maybe_suggest_difficulty: the difficulty kept as the last
\* suggested one, and the commands handed to the client's channel.
maybe_suggest_difficulty(hashrate, last) ==
    LET new_diff == compute_suggested_difficulty(hashrate)
    IN IF new_diff = None THEN [last |-> last, send |-> <<>>]
       ELSE IF ~material_change(new_diff[1], last) THEN [last |-> last, send |-> <<>>]
       ELSE [last |-> new_diff,
             send |-> <<[kind |-> "SuggestDifficulty", difficulty |-> new_diff[1]]>>]

\* The version masks a pool authorises: 0x1fffe000 and 0x00c00000.
Masks == {U32(8191, 57344), U32(192, 0)}

\* The extranonce1 a pool assigns.
Extranonce1 == <<171, 205>>

\* The extranonce2 sizes a pool assigns: one the miner supports and one it
\* does not.
SubscribeSizes == {4, MAX_SIZE + 1}

\* The difficulties a pool sets.
PoolDifficulties == {0, 4}

\* The jobs a pool notifies: version 0x20000000.
Jobs == [job_id : {1}, clean_jobs : BOOLEAN, version : {U32(8192, 0)}]

\* The shares the scheduler submits: versions 0x20000000 and 0x20b44000, with
\* no extranonce2 or the four bytes de ad be ef.
Shares ==
    [job_id : {1}, nonce : {4660}, time : {22136},
     version : {U32(8192, 0), U32(8372, 16384)},
     extranonce2 : {None, Some([value |-> <<0, 0, 61374, 44510>>, size |-> 4])}]

\* enum ClientEvent
VersionRollingConfiguredEvents ==
    [kind : {"VersionRollingConfigured"},
     authorized_mask : {None} \cup {Some(m) : m \in Masks}]

SubscribedEvents ==
    [kind : {"Subscribed"}, extranonce1 : {Extranonce1}, extranonce2_size : SubscribeSizes]

NewJobEvents == [kind : {"NewJob"}, job : Jobs]

DifficultyChangedEvents == [kind : {"DifficultyChanged"}, diff : PoolDifficulties]

VersionMaskSetEvents == [kind : {"VersionMaskSet"}, mask : Masks]

ShareAcceptedEvents == [kind : {"ShareAccepted"}]

ShareRejectedEvents == [kind : {"ShareRejected"}]

DisconnectedEvents == [kind : {"Disconnected"}]

ErrorEvents == [kind : {"Error"}]

\* PoolConfig::username
Username == "testworker"

VARIABLES
    src_pc,                     \* run: "waiting", "running", "joining", "returned"
    src_result,                 \* what run returned: None, Some("Ok"), Some("Err")
    src_state,                  \* state: Option<ProtocolState>
    expected_hashrate,          \* HashRate, in units
    last_suggested_difficulty,  \* Option<u64>
    first_share_logged,         \* bool
    shutdown,                   \* CancellationToken: cancelled or not
    client,                     \* the spawned Stratum client task
    event_tx,                   \* the scheduler's event channel
    client_command_tx,          \* the client's command channel
    src_last,                   \* history: the last step of run
    pool,                       \* history: the pool's last mask, difficulty and session
    rates                       \* history: the non-zero hashrates received so far

sourceVars ==
    <<src_pc, src_result, src_state, expected_hashrate, last_suggested_difficulty,
      first_share_logged, shutdown, client, event_tx, client_command_tx,
      src_last, pool, rates>>

\* No client is created yet.
NoClient == [spawned |-> FALSE, alive |-> FALSE, initial_difficulty |-> None, result |-> "Ok"]

\* No non-zero hashrate has been received.
NoRates == [shape |-> "none", first |-> 0, lo |-> 0, hi |-> 0, last |-> 0, sent |-> 0]

\* The hashrates received were neither non-decreasing nor non-increasing.
MixedRates(first) ==
    [shape |-> "mixed", first |-> first, lo |-> 0, hi |-> 0, last |-> 0, sent |-> 0]

\* StratumV1Source::new
InitSource ==
    /\ src_pc = "waiting"
    /\ src_result = None
    /\ src_state = None
    /\ expected_hashrate = 0
    /\ last_suggested_difficulty = None
    /\ first_share_logged = FALSE
    /\ shutdown = FALSE
    /\ client = NoClient
    /\ event_tx = <<>>
    /\ client_command_tx = <<>>
    /\ src_last = [op |-> "new", arg |-> <<>>, pc |-> "waiting",
                   state |-> None, last |-> None, out |-> <<>>, result |-> "Ok"]
    /\ pool = [mask |-> None, difficulty |-> None, session |-> "none"]
    /\ rates = NoRates

SourceIdle == InitSource

\* The record of one step of run: the branch taken, its input, the fields of
\* the source before it, the messages it handed to a channel and its outcome.
SourceStep(op, arg, out, result) ==
    src_last' = [op |-> op, arg |-> arg, pc |-> src_pc,
                 state |-> src_state, last |-> last_suggested_difficulty,
                 out |-> out, result |-> result]

\* The hashrates received so far, a further `rate` and `sent` suggestions later:
\* the first non-zero rate and, while the non-zero rates are non-decreasing or
\* non-increasing, the smallest, the largest and the last of them and the
\* number of difficulties suggested.
RatesAfter(r, rate, sent) ==
    IF rate = 0 \/ r.shape = "mixed" THEN r
    ELSE IF r.shape = "none"
    THEN [shape |-> "monotone", first |-> rate, lo |-> rate, hi |-> rate,
          last |-> rate, sent |-> sent]
    ELSE IF /\ r.lo < r.hi
            /\ \/ r.last = r.hi /\ rate < r.last
               \/ r.last = r.lo /\ rate > r.last
    THEN MixedRates(r.first)
    ELSE [r EXCEPT !.lo = Min2(r.lo, rate), !.hi = Max2(r.hi, rate),
                   !.last = rate, !.sent = r.sent + sent]

\* What the pool has said, `event` later: the session is "lost" once the pool
\* disconnects a session that was subscribed.
PoolAfter(p, event) ==
    CASE event.kind = "VersionRollingConfigured" ->
            [p EXCEPT !.mask = Some(event.authorized_mask)]
      [] event.kind = "VersionMaskSet" -> [p EXCEPT !.mask = Some(Some(event.mask))]
      [] event.kind = "DifficultyChanged" -> [p EXCEPT !.difficulty = Some(event.diff)]
      [] event.kind = "Subscribed" -> [p EXCEPT !.session = "subscribed"]
      [] event.kind = "Disconnected" ->
            [p EXCEPT !.session = IF p.session \in {"subscribed", "lost"}
                                  THEN "lost" ELSE "disconnected"]
      [] OTHER -> p

\* Mutant of handle_client_event: a job is always announced as an update.
handle_client_event_update_only(st, logged, event) ==
    LET same == [state |-> st, first_share_logged |-> logged, send |-> <<>>,
                 result |-> "Ok"]
    IN CASE event.kind = "VersionRollingConfigured" ->
               [same EXCEPT !.state =
                   IF st # None
                   THEN Some([st[1] EXCEPT !.version_mask = event.authorized_mask])
                   ELSE Some(ProtocolState(<<>>, 0, None, event.authorized_mask))]
         [] event.kind = "Subscribed" ->
               [same EXCEPT !.state =
                   IF st # None
                   THEN Some([st[1] EXCEPT !.extranonce1 = event.extranonce1,
                                           !.extranonce2_size = event.extranonce2_size])
                   ELSE Some(ProtocolState(event.extranonce1, event.extranonce2_size,
                                           None, None))]
         [] event.kind = "NewJob" ->
               LET built == job_to_template(st, event.job)
               IN IF built.tag = "Err" THEN [same EXCEPT !.result = "Err"]
                  ELSE [same EXCEPT !.send =
                          <<[kind |-> "UpdateJob", template |-> built.v]>>]
         [] event.kind = "DifficultyChanged" ->
               IF st # None
               THEN [same EXCEPT !.state =
                       Some([st[1] EXCEPT !.share_difficulty =
                                              Some(Difficulty_from(event.diff))])]
               ELSE same
         [] event.kind = "VersionMaskSet" ->
               IF st # None
               THEN [same EXCEPT !.state =
                       Some([st[1] EXCEPT !.version_mask = Some(event.mask)])]
               ELSE same
         [] event.kind = "ShareAccepted" -> [same EXCEPT !.first_share_logged = TRUE]
         [] event.kind = "ShareRejected" -> same
         [] event.kind = "Disconnected" -> [same EXCEPT !.send = <<[kind |-> "ClearJobs"]>>]
         [] event.kind = "Error" -> same

\* StratumV1Source::handle_client_event: the protocol state and the flag
\* after the event, the events handed to the scheduler's channel, and whether
\* the handler returned Ok or Err.
handle_client_event(st, logged, event) ==
    LET same == [state |-> st, first_share_logged |-> logged, send |-> <<>>,
                 result |-> "Ok"]
    IN CASE event.kind = "VersionRollingConfigured" ->
               [same EXCEPT !.state =
                   IF st # None
                   THEN Some([st[1] EXCEPT !.version_mask = event.authorized_mask])
                   ELSE Some(ProtocolState(<<>>, 0, None, event.authorized_mask))]
         [] event.kind = "Subscribed" ->
               [same EXCEPT !.state =
                   IF st # None
                   THEN Some([st[1] EXCEPT !.extranonce1 = event.extranonce1,
                                           !.extranonce2_size = event.extranonce2_size])
                   ELSE Some(ProtocolState(event.extranonce1, event.extranonce2_size,
                                           None, None))]
         [] event.kind = "NewJob" ->
               LET built == job_to_template(st, event.job)
               IN IF built.tag = "Err" THEN [same EXCEPT !.result = "Err"]
                  ELSE [same EXCEPT !.send =
                          <<[kind |-> IF event.job.clean_jobs THEN "ReplaceJob"
                                      ELSE "UpdateJob",
                             template |-> built.v]>>]
         [] event.kind = "DifficultyChanged" ->
               IF st # None
               THEN [same EXCEPT !.state =
                       Some([st[1] EXCEPT !.share_difficulty =
                                              Some(Difficulty_from(event.diff))])]
               ELSE same
         [] event.kind = "VersionMaskSet" ->
               IF st # None
               THEN [same EXCEPT !.state =
                       Some([st[1] EXCEPT !.version_mask = Some(event.mask)])]
               ELSE same
         [] event.kind = "ShareAccepted" -> [same EXCEPT !.first_share_logged = TRUE]
         [] event.kind = "ShareRejected" -> same
         [] event.kind = "Disconnected" -> [same EXCEPT !.send = <<[kind |-> "ClearJobs"]>>]
         [] event.kind = "Error" -> same

\* CancellationToken::cancel, by the owner of the source.
Cancel ==
    /\ ~shutdown
    /\ shutdown' = TRUE
    /\ UNCHANGED <<src_pc, src_result, src_state, expected_hashrate,
                   last_suggested_difficulty, first_share_logged, client, event_tx,
                   client_command_tx, src_last, pool, rates>>

\* Mutant of Connects: run connects on any hashrate.
Connects_always(rate) == TRUE

\* Phase 1 ends (break) on a non-zero rate.
Connects(rate) == rate # 0

\* run, phase 1, SourceCommand::UpdateHashRate(rate): a non-zero rate ends the
\* wait; run then computes the initial difficulty, creates the client with it
\* and spawns it.
WaitUpdateHashRate(rate) ==
    /\ src_pc = "waiting"
    /\ expected_hashrate' = rate
    /\ IF Connects(rate)
       THEN LET initial_difficulty == compute_suggested_difficulty(rate)
            IN /\ last_suggested_difficulty' = initial_difficulty
               /\ client' = [spawned |-> TRUE, alive |-> TRUE,
                             initial_difficulty |-> initial_difficulty,
                             result |-> "Ok"]
               /\ src_pc' = "running"
               /\ rates' = RatesAfter(rates, rate, Len(initial_difficulty))
       ELSE UNCHANGED <<last_suggested_difficulty, client, src_pc, rates>>
    /\ SourceStep("UpdateHashRate", rate, <<>>, "Ok")
    /\ UNCHANGED <<src_result, src_state, first_share_logged, shutdown, event_tx,
                   client_command_tx, pool>>

\* run, phase 1, SourceCommand::SubmitShare: dropped.
WaitSubmitShare(share) ==
    /\ src_pc = "waiting"
    /\ SourceStep("SubmitShare", share, <<>>, "Ok")
    /\ UNCHANGED <<src_pc, src_result, src_state, expected_hashrate,
                   last_suggested_difficulty, first_share_logged, shutdown, client,
                   event_tx, client_command_tx, pool, rates>>

\* run, phase 1, shutdown.cancelled(): return Ok(()).
WaitShutdown ==
    /\ src_pc = "waiting"
    /\ shutdown
    /\ src_pc' = "returned"
    /\ src_result' = Some("Ok")
    /\ SourceStep("shutdown", <<>>, <<>>, "Ok")
    /\ UNCHANGED <<src_state, expected_hashrate, last_suggested_difficulty,
                   first_share_logged, shutdown, client, event_tx, client_command_tx,
                   pool, rates>>

\* mpsc::Sender::send on the client's channel: an error once the client is gone.
ClientSend(commands) ==
    IF client.alive THEN client_command_tx \o commands ELSE client_command_tx

\* run, main loop, an event of the client.
SourceClientEvent(event) ==
    /\ src_pc = "running"
    /\ client.alive
    /\ LET r == handle_client_event(src_state, first_share_logged, event)
       IN /\ Len(event_tx) + Len(r.send) <= EventCapacity
          /\ src_state' = r.state
          /\ first_share_logged' = r.first_share_logged
          /\ event_tx' = event_tx \o r.send
          /\ SourceStep(event.kind, event, r.send, r.result)
    /\ pool' = PoolAfter(pool, event)
    /\ UNCHANGED <<src_pc, src_result, expected_hashrate, last_suggested_difficulty,
                   shutdown, client, client_command_tx, rates>>

\* run, main loop, SourceCommand::SubmitShare(share).
RunSubmitShare(share) ==
    /\ src_pc = "running"
    /\ Len(client_command_tx) < CommandCapacity
    /\ LET r == share_to_submit_params(src_state, Username, share)
           out == IF r.tag = "Ok" THEN <<[kind |-> "SubmitShare", params |-> r.v]>>
                  ELSE <<>>
       IN /\ client_command_tx' = ClientSend(out)
          /\ SourceStep("SubmitShare", share, out, r.tag)
    /\ UNCHANGED <<src_pc, src_result, src_state, expected_hashrate,
                   last_suggested_difficulty, first_share_logged, shutdown, client,
                   event_tx, pool, rates>>

\* run, main loop, SourceCommand::UpdateHashRate(rate).
RunUpdateHashRate(rate) ==
    /\ src_pc = "running"
    /\ Len(client_command_tx) < CommandCapacity
    /\ expected_hashrate' = rate
    /\ LET r == maybe_suggest_difficulty(rate, last_suggested_difficulty)
       IN /\ last_suggested_difficulty' = r.last
          /\ client_command_tx' = ClientSend(r.send)
          /\ rates' = RatesAfter(rates, rate, Len(r.send))
          /\ SourceStep("UpdateHashRate", rate, r.send, "Ok")
    /\ UNCHANGED <<src_pc, src_result, src_state, first_share_logged, shutdown, client,
                   event_tx, pool>>

\* run, main loop, shutdown.cancelled(): break.
RunShutdown ==
    /\ src_pc = "running"
    /\ shutdown
    /\ src_pc' = "joining"
    /\ SourceStep("shutdown", <<>>, <<>>, "Ok")
    /\ UNCHANGED <<src_result, src_state, expected_hashrate, last_suggested_difficulty,
                   first_share_logged, shutdown, client, event_tx, client_command_tx,
                   pool, rates>>

\* run, main loop, the client's event channel is closed: break.
RunClientClosed ==
    /\ src_pc = "running"
    /\ ~client.alive
    /\ src_pc' = "joining"
    /\ SourceStep("closed", <<>>, <<>>, "Ok")
    /\ UNCHANGED <<src_result, src_state, expected_hashrate, last_suggested_difficulty,
                   first_share_logged, shutdown, client, event_tx, client_command_tx,
                   pool, rates>>

\* run, after the loop: client_handle.await and the client's result.
Join ==
    /\ src_pc = "joining"
    /\ ~client.alive
    /\ src_pc' = "returned"
    /\ src_result' = Some(client.result)
    /\ SourceStep("join", <<>>, <<>>, client.result)
    /\ UNCHANGED <<src_state, expected_hashrate, last_suggested_difficulty,
                   first_share_logged, shutdown, client, event_tx, client_command_tx,
                   pool, rates>>

\* The client task ends, with Ok or with an error: its end of the event
\* channel and its command channel are dropped.
ClientExit ==
    /\ client.alive
    /\ \E result \in {"Ok", "Err"} :
          client' = [client EXCEPT !.alive = FALSE, !.result = result]
    /\ client_command_tx' = <<>>
    /\ UNCHANGED <<src_pc, src_result, src_state, expected_hashrate,
                   last_suggested_difficulty, first_share_logged, shutdown, event_tx,
                   src_last, pool, rates>>

\* The client takes a command from its channel.
ClientRecv ==
    /\ client.alive
    /\ client_command_tx # <<>>
    /\ client_command_tx' = Tail(client_command_tx)
    /\ UNCHANGED <<src_pc, src_result, src_state, expected_hashrate,
                   last_suggested_difficulty, first_share_logged, shutdown, client,
                   event_tx, src_last, pool, rates>>

\* The scheduler takes an event from its channel.
SchedulerRecv ==
    /\ event_tx # <<>>
    /\ event_tx' = Tail(event_tx)
    /\ UNCHANGED <<src_pc, src_result, src_state, expected_hashrate,
                   last_suggested_difficulty, first_share_logged, shutdown, client,
                   client_command_tx, src_last, pool, rates>>

(***************************************************************************)
(* Reconnection backoff (ExponentialBackoff in job_source/stratum_v1.rs).  *)
(***************************************************************************)

\* The jitter hash is one of the levels 0..JitterLevels: level h stands for
\* the hashes with hash as f64 / u64::MAX as f64 = h / JitterLevels. The top
\* level is reached: u64::MAX as f64 is 2^64, and every hash from
\* 2^64 - 1024 on converts to 2^64 as well.
JitterLevels == 4

\* No more than MaxJitterStep delays are drawn from one backoff.
MaxJitterStep == 12

\* A Duration is a whole number of ticks, fine enough for every jittered
\* delay of a whole number of seconds to be exact.
TicksPerSecond == 2 * JitterLevels

\* Duration::from_secs
Duration_from_secs(secs) == secs * TicksPerSecond

\* The (initial, max) pairs a backoff is constructed with.
BackoffParams ==
    {<<Duration_from_secs(1), Duration_from_secs(60)>>,
     <<Duration_from_secs(32), Duration_from_secs(60)>>}

\* ExponentialBackoff::new
ExponentialBackoff_new(initial, max) ==
    [current |-> initial, initial |-> initial, max |-> max, jitter_step |-> 0]

\* 0.5 + (hash as f64 / u64::MAX as f64) * 0.5, as a fraction
Jitter(hash) == [num |-> JitterLevels + hash, den |-> 2 * JitterLevels]

\* Duration::mul_f64
Duration_mul_f64(d, f) == (d * f.num) \div f.den

\* ExponentialBackoff::next_delay with the hash that the hasher finishes
\* with; jitter_step stays far from the wrap of wrapping_add.
ExponentialBackoff_next_delay(b, hash) ==
    LET nominal == b.current
    IN [backoff |-> [b EXCEPT !.current = Min2(b.current * 2, b.max),
                              !.jitter_step = b.jitter_step + 1],
        nominal |-> nominal,
        delay |-> Duration_mul_f64(nominal, Jitter(hash))]

\* ExponentialBackoff::reset
ExponentialBackoff_reset(b) == [b EXCEPT !.current = b.initial]

VARIABLES
    backoff,        \* the ExponentialBackoff
    backoff_last    \* the last call: its name, how many delays were drawn
                    \* since construction or the last reset, and what the
                    \* call worked on and returned

backoffVars == <<backoff, backoff_last>>

BackoffStart(initial, max) ==
    /\ backoff = ExponentialBackoff_new(initial, max)
    /\ backoff_last = [op |-> "new", k |-> 0, nominal |-> 0, delay |-> 0]

InitBackoff == \E params \in BackoffParams : BackoffStart(params[1], params[2])

BackoffIdle == BackoffStart(Duration_from_secs(1), Duration_from_secs(60))

\* backoff.next_delay(); the hasher is seeded from OS randomness.
BackoffNextDelay(hash) ==
    /\ backoff.jitter_step < MaxJitterStep
    /\ LET r == ExponentialBackoff_next_delay(backoff, hash)
       IN /\ backoff' = r.backoff
          /\ backoff_last' = [op |-> "next_delay", k |-> backoff_last.k + 1,
                              nominal |-> r.nominal, delay |-> r.delay]

\* backoff.reset()
BackoffReset ==
    /\ backoff' = ExponentialBackoff_reset(backoff)
    /\ backoff_last' = [op |-> "reset", k |-> 0, nominal |-> 0, delay |-> 0]

(***************************************************************************)
(* BM13xx command frames: CRCs (asic/bm13xx/crc.rs) and the dissector's    *)
(* command decoder (tools/mujina-dissect/src/serial.rs).                   *)
(***************************************************************************)

\* Streams of arbitrary bytes are up to MaxJunk bytes long.
MaxJunk == 5

RECURSIVE BitXor(_, _)
\* a ^ b on naturals
BitXor(a, b) ==
    IF a = 0 THEN b
    ELSE IF b = 0 THEN a
    ELSE ((a + b) % 2) + 2 * BitXor(a \div 2, b \div 2)

\* Bit i of byte b, bit 7 first.
BitOfByte(b, i) == (b \div (2 ^ (7 - i))) % 2

\* CrcAlgo without reflection: one message bit goes into a `width`-bit register.
CrcBit(poly, width, crc, bit) ==
    LET top == ((crc \div (2 ^ (width - 1))) + bit) % 2
        shifted == (2 * crc) % (2 ^ width)
    IN IF top = 1 THEN BitXor(shifted, poly) ELSE shifted

RECURSIVE CrcBits(_, _, _, _, _)
\* The first n bits of a sequence go into the register, the first one first.
CrcBits(poly, width, crc, bits, n) ==
    IF n = 0 THEN crc
    ELSE CrcBit(poly, width, CrcBits(poly, width, crc, bits, n - 1), bits[n])

\* The four bits of a half byte, the most significant first.
HalfByteBits(h) == [i \in 1..4 |-> BitOfByte(h, i + 3)]

\* a ^ b on half bytes
Xor4 == [a \in 0..15 |-> [b \in 0..15 |-> BitXor(a, b)]]

\* a ^ b on bytes
Xor8(a, b) == Xor4[a \div 16][b \div 16] * 16 + Xor4[a % 16][b % 16]

\* a ^ b on u16
Xor16(a, b) == Xor8(a \div 256, b \div 256) * 256 + Xor8(a % 256, b % 256)

\* Eight bytes of d after offset o go through Step, one after the other.
CrcFold8(Step(_, _), crc, d, o) ==
    Step(Step(Step(Step(Step(Step(Step(Step(crc, d[o + 1]), d[o + 2]), d[o + 3]),
         d[o + 4]), d[o + 5]), d[o + 6]), d[o + 7]), d[o + 8])

RECURSIVE CrcFold(_, _, _, _)
\* CrcAlgo::update_crc: the bytes of d after offset o go through Step. The
\* register is looked at before each round, which keeps the evaluation flat.
CrcFold(Step(_, _), crc, d, o) ==
    IF crc < 0 \/ o >= Len(d) THEN crc
    ELSE IF o + 8 <= Len(d) THEN CrcFold(Step, CrcFold8(Step, crc, d, o), d, o + 8)
    ELSE CrcFold(Step, Step(crc, d[o + 1]), d, o + 1)

\* const CRC5_INIT: u8 = 0x1f
CRC5_INIT == 31

\* const CRC5: polynomial 0x5
CRC5_POLY == 5

\* const CRC5: width 5
CRC5_WIDTH == 5

\* const CRC5, four bits at a time: the register after half a byte, for
\* every register and half byte.
CRC5 ==
    [crc \in 0..31 |->
        [h \in 0..15 |-> CrcBits(CRC5_POLY, CRC5_WIDTH, crc, HalfByteBits(h), 4)]]

\* One byte through CRC5, its high half first
Crc5Step(crc, b) == CRC5[CRC5[crc][b \div 16]][b % 16]

\* Mutant of crc5: the register starts at zero.
crc5_zero_init(data) == CrcFold(Crc5Step, 0, data, 0)

\* crc5: xorout is 0, so finish_crc returns the register.
crc5(data) == CrcFold(Crc5Step, CRC5_INIT, data, 0)

\* crc5_is_valid
crc5_is_valid(data) == crc5(data) = 0

\* const CRC16_INIT: u16 = 0xFFFF
CRC16_INIT == 65535

\* const CRC16: polynomial 0x1021
CRC16_POLY == 4129

\* const CRC16: width 16
CRC16_WIDTH == 16

\* const CRC16, byte by byte: what a byte in the top of a cleared register
\* leaves after eight shifts.
CRC16 ==
    [b \in 0..255 |->
        CrcBits(CRC16_POLY, CRC16_WIDTH, b * 256, [i \in 1..8 |-> 0], 8)]

\* One byte through CRC16
Crc16Step(crc, b) == Xor16((crc % 256) * 256, CRC16[Xor8(crc \div 256, b)])

\* crc16
crc16(data) == CrcFold(Crc16Step, CRC16_INIT, data, 0)

\* u16::from_be_bytes
U16FromBe(hi, lo) == hi * 256 + lo

\* data[from..to] of Rust, on a sequence counted from 1.
Slice(data, from, to) == SubSeq(data, from + 1, to)

\* const PREAMBLE: [u8; 2] = [0x55, 0xaa]
PREAMBLE == <<85, 170>>

\* const MIN_FRAME_LEN: usize = 5
MIN_FRAME_LEN == 5

\* The register addresses RegisterAddress::from_repr knows.
RegisterAddresses == {0, 40, 164}

\* RegisterAddress::from_repr
RegisterAddress_from_repr(b) == IF b \in RegisterAddresses THEN Some(b) ELSE None

\* Register::decode: the register of an address with its four value bytes.
Register_decode(reg_addr, value_bytes) == [address |-> reg_addr, value |-> value_bytes]

\* struct JobFullFormat from the 82 bytes of a job record
JobFullFormat(b) ==
    [job_id |-> b[1], num_midstates |-> b[2],
     starting_nonce |-> Slice(b, 2, 6), nbits |-> Slice(b, 6, 10),
     ntime |-> Slice(b, 10, 14), merkle_root |-> Slice(b, 14, 46),
     prev_block_hash |-> Slice(b, 46, 78), version |-> Slice(b, 78, 82)]

\* enum Command
SetChipAddress(chip_address) == [tag |-> "SetChipAddress", chip_address |-> chip_address]

WriteRegister(all, chip_address, register) ==
    [tag |-> "WriteRegister", all |-> all, chip_address |-> chip_address,
     register |-> register]

ReadRegister(all, chip_address, register_address) ==
    [tag |-> "ReadRegister", all |-> all, chip_address |-> chip_address,
     register_address |-> register_address]

ChainInactive == [tag |-> "ChainInactive"]

JobFull(job_data) == [tag |-> "JobFull", job_data |-> job_data]

\* The CRC check of parse_command_frame.
crc_valid(data, is_work) ==
    IF is_work
    THEN LET payload_end == Len(data) - 2
             expected_crc == U16FromBe(data[payload_end + 1], data[payload_end + 2])
         IN crc16(Slice(data, 2, payload_end)) = expected_crc
    ELSE crc5(Slice(data, 2, Len(data) - 1)) = data[Len(data)]

\* parse_command_frame of a register frame whose CRC is right
parse_register_command(data, cmd, is_broadcast) ==
    LET reg_addr == RegisterAddress_from_repr(data[6])
    IN CASE cmd = 0 /\ ~is_broadcast -> OkResult(SetChipAddress(data[5]))
         [] cmd = 1 ->
               IF Len(data) < 10 THEN ErrResult("InvalidFrame")
               ELSE IF reg_addr = None THEN ErrResult("InvalidRegisterAddress")
               ELSE OkResult(WriteRegister(is_broadcast, data[5],
                        Register_decode(reg_addr[1], Slice(data, 6, 10))))
         [] cmd = 2 ->
               IF Len(data) < 6 THEN ErrResult("InvalidFrame")
               ELSE IF reg_addr = None THEN ErrResult("InvalidRegisterAddress")
               ELSE OkResult(ReadRegister(is_broadcast, data[5], reg_addr[1]))
         [] cmd = 3 /\ ~is_broadcast -> OkResult(ChainInactive)
         [] OTHER -> ErrResult("InvalidFrame")

\* Mutant of is_work_frame: work frames are those with bit 6 set.
is_work_frame_bit6_set(type_flags) == (type_flags \div 64) % 2 = 1

\* let is_work = (type_flags & 0x40) == 0
is_work_frame(type_flags) == (type_flags \div 64) % 2 = 0

\* CommandDecoder::parse_command_frame; `checks` says that the build checks
\* arithmetic overflow, and `_length - 4` then panics below 4, while it wraps
\* to a number that is not 82 otherwise.
parse_command_frame(data, checks) ==
    IF Len(data) < 5 THEN ErrResult("InvalidFrame")
    ELSE LET type_flags == data[3]
             length == data[4]
             is_work == is_work_frame(type_flags)
             is_broadcast == (type_flags \div 16) % 2 # 0
             cmd == type_flags % 16
         IN IF ~crc_valid(data, is_work) THEN ErrResult("InvalidFrame")
            ELSE IF is_work
            THEN IF length < 4 /\ checks THEN Panic
                 ELSE IF length - 4 = 82 /\ Len(data) >= 2 + length
                 THEN OkResult(JobFull(JobFullFormat(Slice(data, 4, 4 + 82))))
                 ELSE ErrResult("InvalidFrame")
            ELSE parse_register_command(data, cmd, is_broadcast)

\* Mutant of DecodeParsed: a frame that does not parse stays in the buffer.
DecodeParsed_keeps(src, total_length, parsed) ==
    IF parsed.tag = "Panic" THEN [item |-> Panic, src |-> src, why |-> "panic"]
    ELSE IF parsed.tag = "Ok"
    THEN [item |-> SomeResult(parsed.v),
          src |-> SubSeq(src, total_length + 1, Len(src)), why |-> "frame"]
    ELSE [item |-> NoneResult, src |-> src, why |-> parsed.err]

\* CommandDecoder::decode once the frame is parsed: it advances past a
\* command, and by one byte past a frame that does not parse.
DecodeParsed(src, total_length, parsed) ==
    IF parsed.tag = "Panic" THEN [item |-> Panic, src |-> src, why |-> "panic"]
    ELSE IF parsed.tag = "Ok"
    THEN [item |-> SomeResult(parsed.v),
          src |-> SubSeq(src, total_length + 1, Len(src)), why |-> "frame"]
    ELSE [item |-> NoneResult, src |-> Tail(src), why |-> parsed.err]

\* CommandDecoder::decode: what it returns, the buffer it leaves, and the
\* branch it took. last_buffer_size only feeds the trace log.
CommandDecoder_decode(src, checks) ==
    IF Len(src) < MIN_FRAME_LEN THEN [item |-> NoneResult, src |-> src, why |-> "more"]
    ELSE IF src[1] # PREAMBLE[1] \/ src[2] # PREAMBLE[2]
    THEN [item |-> NoneResult, src |-> Tail(src), why |-> "preamble"]
    ELSE IF Len(src) < 2 + src[4]
    THEN [item |-> NoneResult, src |-> src, why |-> "more"]
    ELSE DecodeParsed(src, 2 + src[4],
                      parse_command_frame(SubSeq(src, 1, 2 + src[4]), checks))

\* struct TimestampedCodec for Direction::HostToChip
TimestampedCodec_new == [buffer |-> <<>>, byte_timestamps |-> <<>>, byte_errors |-> <<>>]

\* One decode call as feed_event sees it.
DecodeCall(before, r) ==
    [before |-> before, after |-> r.src, item |-> r.item, why |-> r.why]

\* The codec after a decoded frame of consumed_bytes bytes.
Drained(c, consumed_bytes) ==
    [buffer |-> SubSeq(c.buffer, consumed_bytes + 1, Len(c.buffer)),
     byte_timestamps |-> SubSeq(c.byte_timestamps, consumed_bytes + 1,
                                Len(c.byte_timestamps)),
     byte_errors |-> SubSeq(c.byte_errors, consumed_bytes + 1, Len(c.byte_errors))]

\* The results of feed_event after a decoded frame of consumed_bytes bytes:
\* the frame is reported unless one of its bytes had a framing error.
Reported(c, results, command, consumed_bytes) ==
    IF \E i \in 1..consumed_bytes : c.byte_errors[i] THEN results
    ELSE Append(results, [timestamp |-> c.byte_timestamps[consumed_bytes],
                          command |-> command,
                          raw_bytes |-> SubSeq(c.buffer, 1, consumed_bytes)])

RECURSIVE FeedLoop(_, _, _, _, _)
\* The loop of feed_event for Direction::HostToChip, r being what decode
\* returned: after a frame decode is called again, and the loop ends when
\* decode returns Ok(None), or panics.
FeedLoop(c, r, results, calls, checks) ==
    IF r.item.tag = "Some"
    THEN FeedLoop(Drained(c, Len(c.buffer) - Len(r.src)),
                  CommandDecoder_decode(r.src, checks),
                  Reported(c, results, r.item.v, Len(c.buffer) - Len(r.src)),
                  Append(calls, DecodeCall(c.buffer, r)), checks)
    ELSE [codec |-> [c EXCEPT !.buffer = r.src], results |-> results,
          calls |-> Append(calls, DecodeCall(c.buffer, r)),
          panicked |-> r.item.tag = "Panic"]

\* The codec with the byte of an event at the end of its buffer.
Extended(c, event) ==
    [buffer |-> Append(c.buffer, event.data),
     byte_timestamps |-> Append(c.byte_timestamps, event.timestamp),
     byte_errors |-> Append(c.byte_errors, event.error)]

\* TimestampedCodec::feed_event
feed_event(c, event, checks) ==
    FeedLoop(Extended(c, event),
             CommandDecoder_decode(Append(c.buffer, event.data), checks),
             <<>>, <<>>, checks)

\* TimestampedCodec::flush
flush(c) == TimestampedCodec_new

\* The bytes of a JobFullFormat, in wire order.
JobFullBytes(job) ==
    <<job.job_id, job.num_midstates>> \o job.starting_nonce \o job.nbits
        \o job.ntime \o job.merkle_root \o job.prev_block_hash \o job.version

\* A register frame: preamble, type/flags, length, payload, CRC-5.
RegisterFrame(type_flags, payload) ==
    LET body == <<type_flags, Len(payload) + 3>> \o payload
    IN PREAMBLE \o body \o <<crc5(body)>>

\* A work frame: preamble, type/flags, length, payload, CRC-16 big-endian.
WorkFrame(type_flags, payload) ==
    LET body == <<type_flags, Len(payload) + 4>> \o payload
        crc == crc16(body)
    IN PREAMBLE \o body \o <<crc \div 256, crc % 256>>

\* Command::encode: type/flags is 0x40 for a command and 0x20 for a job,
\* plus 0x10 for a broadcast, plus the command number; a broadcast goes to
\* chip address 0x00; ChainInactive is always a broadcast.
Command_encode(command) ==
    CASE command.tag = "SetChipAddress" ->
            RegisterFrame(64, <<command.chip_address, 0>>)
      [] command.tag = "WriteRegister" ->
            RegisterFrame(64 + (IF command.all THEN 16 ELSE 0) + 1,
                          <<IF command.all THEN 0 ELSE command.chip_address,
                            command.register.address>> \o command.register.value)
      [] command.tag = "ReadRegister" ->
            RegisterFrame(64 + (IF command.all THEN 16 ELSE 0) + 2,
                          <<IF command.all THEN 0 ELSE command.chip_address,
                            command.register_address>>)
      [] command.tag = "ChainInactive" -> RegisterFrame(64 + 16 + 3, <<0, 0>>)
      [] command.tag = "JobFull" -> WorkFrame(32 + 1, JobFullBytes(command.job_data))

\* The frames of the CRC tests that are taken from esp-miner, each with the
\* command it carries.
KnownFrames ==
    {[frame |-> <<85, 170, 82, 5, 0, 0, 10>>, command |-> ReadRegister(TRUE, 0, 0)],
     [frame |-> <<85, 170, 81, 9, 0, 40, 17, 48, 2, 0, 3>>,
      command |-> WriteRegister(TRUE, 0, Register_decode(40, <<17, 48, 2, 0>>))],
     [frame |-> <<85, 170, 64, 5, 0, 0, 28>>, command |-> SetChipAddress(0)],
     [frame |-> <<85, 170, 64, 5, 8, 0, 7>>, command |-> SetChipAddress(8)],
     [frame |-> <<85, 170, 83, 5, 0, 0, 3>>, command |-> ChainInactive],
     [frame |-> <<85, 170, 81, 9, 0, 164, 144, 0, 255, 255, 28>>,
      command |-> WriteRegister(TRUE, 0, Register_decode(164, <<144, 0, 255, 255>>))]}

\* The JobFull frame of crc16_matches_esp_miner_job.
CapturedJobFrame ==
    <<85, 170, 33, 86, 24, 1, 0, 0, 0, 0, 56, 250, 1, 23,
      220, 23, 214, 104, 21, 22, 171, 61, 22, 66, 187, 31, 226, 226,
      55, 127, 138, 197, 131, 229, 218, 153, 108, 107, 199, 5, 62, 174,
      86, 75, 2, 3, 204, 78, 210, 55, 0, 0, 0, 0, 0, 0,
      0, 0, 162, 92, 0, 0, 161, 231, 171, 94, 95, 36, 70, 163,
      95, 156, 187, 234, 63, 83, 22, 229, 78, 57, 147, 222, 0, 0,
      0, 32, 107, 24>>

\* The commands that are encoded and decoded: those of the known frames,
\* unicast register commands, and the captured job.
Commands ==
    {k.command : k \in KnownFrames}
        \cup {ReadRegister(FALSE, 4, 0),
              WriteRegister(FALSE, 2, Register_decode(40, <<17, 48, 2, 0>>)),
              JobFull(JobFullFormat(Slice(CapturedJobFrame, 4, 86)))}

\* `bytes` with bit k flipped, bit 1 being the top bit of the first byte.
FlipBit(bytes, k) ==
    LET i == (k - 1) \div 8 + 1
    IN [bytes EXCEPT ![i] = Xor8(bytes[i], 2 ^ (7 - ((k - 1) % 8)))]

\* The bytes that streams of arbitrary bytes are made of: with them
\* 55 aa 40 03 08 is a frame of length 3 whose CRC is right.
JunkBytes == {85, 170, 64, 3, 8}

\* The streams fed to the dissector: each command's frame, alone and after
\* one stray byte, each frame with one bit flipped, and arbitrary bytes.
Streams ==
    {[bytes |-> Command_encode(c), command |-> Some(c), flip |-> 0, stray |-> 0]
        : c \in Commands}
    \cup {[bytes |-> <<b>> \o Command_encode(c), command |-> Some(c), flip |-> 0,
           stray |-> 1] : c \in Commands, b \in {0, 85}}
    \cup UNION {{[bytes |-> FlipBit(Command_encode(c), k), command |-> Some(c),
                  flip |-> k, stray |-> 0] : k \in 1..(8 * Len(Command_encode(c)))}
                : c \in Commands}
    \cup {[bytes |-> bytes, command |-> None, flip |-> 0, stray |-> Len(bytes)]
          : bytes \in UNION {[1..n -> JunkBytes] : n \in 0..MaxJunk}}

VARIABLES
    dissector,     \* the TimestampedCodec of the host-to-chip direction
    wire,          \* the bytes still to come
    fed,           \* how many bytes the codec was fed
    codec_case,    \* what the stream is: the command in it, the flipped bit
    codec_pc,      \* "ready", "panicked" or "flushed"
    codec_last,    \* the last call of the codec: its results, its decode calls
    frames         \* the commands reported so far

codecVars == <<dissector, wire, fed, codec_case, codec_pc, codec_last, frames>>

CodecStart(stream) ==
    /\ dissector = TimestampedCodec_new
    /\ wire = stream.bytes
    /\ fed = 0
    /\ codec_case = [command |-> stream.command, flip |-> stream.flip,
                     stray |-> stream.stray, frame |-> stream.bytes]
    /\ codec_pc = "ready"
    /\ codec_last = [op |-> "new", results |-> <<>>, calls |-> <<>>]
    /\ frames = <<>>

InitCodec == \E stream \in Streams : CodecStart(stream)

CodecIdle == CodecStart([bytes |-> <<>>, command |-> None, flip |-> 0, stray |-> 0])

\* codec.feed_event(&event, baud_rate) with the next byte of the capture;
\* the build checks arithmetic overflow or does not. The stray byte before
\* the frame of a noisy capture comes with a framing error or without, every
\* other byte without.
CodecFeedWith(noisy) ==
    /\ codec_pc = "ready"
    /\ wire # <<>>
    /\ \E checks \in BOOLEAN :
       \E error \in (IF noisy /\ codec_case.command # None /\ fed < codec_case.stray
                      THEN BOOLEAN ELSE {FALSE}) :
        LET event == [data |-> Head(wire), timestamp |-> fed + 1, error |-> error]
            r == feed_event(dissector, event, checks)
        IN /\ dissector' = r.codec
           /\ codec_pc' = IF r.panicked THEN "panicked" ELSE "ready"
           /\ codec_last' = [op |-> "feed_event", results |-> r.results,
                             calls |-> r.calls]
           /\ frames' = frames \o [i \in 1..Len(r.results) |-> r.results[i].command]
    /\ wire' = Tail(wire)
    /\ fed' = fed + 1
    /\ UNCHANGED codec_case

\* A byte of a capture without framing errors.
CodecFeed == CodecFeedWith(FALSE)

\* A byte of a capture whose stray bytes may have framing errors.
CodecFeedNoisy == CodecFeedWith(TRUE)

\* codec.flush() at the end of the capture
CodecFlush ==
    /\ codec_pc = "ready"
    /\ wire = <<>>
    /\ dissector' = flush(dissector)
    /\ codec_pc' = "flushed"
    /\ codec_last' = [op |-> "flush", results |-> <<>>, calls |-> <<>>]
    /\ UNCHANGED <<wire, fed, codec_case, frames>>

(***************************************************************************)
(* Backplane: the board registry and the live boards (backplane.rs).       *)
(***************************************************************************)

\* Devices are plugged into the USB ports 1..UsbPorts.
UsbPorts == 2

\* The transport event channel holds up to TransportCapacity events.
TransportCapacity == 2

\* The channel to the scheduler holds up to ThreadsCapacity thread vectors.
ThreadsCapacity == 1

\* struct BoardDescriptor, with the USB ids find_descriptor compares and the
\* specificity score of its pattern.
BoardDescriptor(name, vid, pid, specificity) ==
    [name |-> name, vid |-> vid, pid |-> pid, specificity |-> specificity]

\* BoardPattern::specificity
BoardPattern_specificity(desc) == desc.specificity

\* BoardPattern::matches
BoardPattern_matches(desc, device) == desc.vid = device.vid /\ desc.pid = device.pid

\* The descriptors inventory::iter yields, in the order of registration: a
\* generic handler registered before or after the boards it stands in for.
Registries ==
    {<<BoardDescriptor("Generic", 1, 1, 1), BoardDescriptor("Bitaxe Gamma", 1, 1, 2),
       BoardDescriptor("Bitaxe Gamma B", 1, 1, 2), BoardDescriptor("EmberOne", 2, 2, 2)>>,
     <<BoardDescriptor("Bitaxe Gamma", 1, 1, 2), BoardDescriptor("Bitaxe Gamma B", 1, 1, 2),
       BoardDescriptor("EmberOne", 2, 2, 2), BoardDescriptor("Generic", 1, 1, 1)>>}

\* struct UsbDeviceInfo, with the serial number its board will report.
UsbDeviceInfo(path, vid, pid, serial_number) ==
    [path |-> path, vid |-> vid, pid |-> pid, serial_number |-> serial_number]

\* The devices that may show up at a port: boards without a serial number,
\* as BitaxeBoard reports, boards with one, and a device no descriptor is
\* registered for.
DevicesAt(path) ==
    {UsbDeviceInfo(path, 1, 1, None), UsbDeviceInfo(path, 1, 1, Some("SN1")),
     UsbDeviceInfo(path, 9, 9, None)}

\* enum TransportEvent
UsbDeviceConnected(device_info) == [tag |-> "UsbDeviceConnected", device_info |-> device_info]

UsbDeviceDisconnected(device_path) ==
    [tag |-> "UsbDeviceDisconnected", device_path |-> device_path]

\* BoardRegistry::find_descriptor: the first descriptor of the inventory
\* with the device's vendor and product id.
find_descriptor(descriptors, vid, pid) ==
    LET found == {i \in DOMAIN descriptors :
                     descriptors[i].vid = vid /\ descriptors[i].pid = pid}
    IN IF found = {} THEN None
       ELSE Some(descriptors[CHOOSE i \in found : \A j \in found : i <= j])

\* BoardRegistry::create_board; the factory of the descriptor succeeds or
\* fails.
create_board(descriptors, device, factory_ok) ==
    LET desc == find_descriptor(descriptors, device.vid, device.pid)
    IN IF desc = None THEN [tag |-> "Err", err |-> "NoBoardRegistered", desc |-> None]
       ELSE IF ~factory_ok THEN [tag |-> "Err", err |-> "Factory", desc |-> desc]
       ELSE [tag |-> "Ok", desc |-> desc,
             v |-> [model |-> desc[1].name, serial_number |-> device.serial_number,
                    path |-> device.path]]

\* HashMap::insert
HashMap_insert(map, key, value) ==
    [k \in DOMAIN map \cup {key} |-> IF k = key THEN value ELSE map[k]]

\* Backplane::handle_usb_event: the boards it leaves, the thread vectors it
\* sends to the scheduler, and what happened.
handle_usb_event(descriptors, boards_before, event, factory_ok, threads_ok) ==
    IF event.tag = "UsbDeviceConnected"
    THEN LET created == create_board(descriptors, event.device_info, factory_ok)
             board_id == IF created.v.serial_number # None
                         THEN created.v.serial_number[1] ELSE "unknown"
         IN IF created.tag = "Err"
            THEN [boards |-> boards_before, send |-> <<>>, desc |-> created.desc,
                  outcome |-> created.err]
            ELSE IF ~threads_ok
            THEN [boards |-> boards_before, send |-> <<>>, desc |-> created.desc,
                  outcome |-> "NoThreads"]
            ELSE [boards |-> HashMap_insert(boards_before, board_id, created.v),
                  send |-> <<[board_id |-> board_id, path |-> created.v.path]>>,
                  desc |-> created.desc, outcome |-> "Stored"]
    ELSE [boards |-> boards_before, send |-> <<>>, desc |-> None, outcome |-> "Ignored"]

VARIABLES
    registry,      \* the registered descriptors, in the order of the inventory
    boards,        \* Backplane::boards, board id -> board
    attached,      \* port -> the device plugged into it, if any
    live,          \* the ports whose board was stored and is still plugged in
    event_rx,      \* transport events not yet received by the backplane
    scheduler_tx,  \* thread vectors not yet received by the scheduler
    backplane_last \* the last event handled, and what came of it

backplaneVars == <<registry, boards, attached, live, event_rx, scheduler_tx, backplane_last>>

\* Backplane::new with the descriptors of a registry
BackplaneStart(descriptors) ==
    /\ registry = descriptors
    /\ boards = <<>>
    /\ attached = [path \in 1..UsbPorts |-> None]
    /\ live = {}
    /\ event_rx = <<>>
    /\ scheduler_tx = <<>>
    /\ backplane_last = [op |-> "new"]

InitBackplane == \E descriptors \in Registries : BackplaneStart(descriptors)

BackplaneIdle ==
    BackplaneStart(CHOOSE descriptors \in Registries : descriptors[1].name = "Generic")

\* A device is plugged into a free port; the USB transport reports it.
UsbPlug ==
    /\ Len(event_rx) < TransportCapacity
    /\ \E path \in 1..UsbPorts :
          /\ attached[path] = None
          /\ \E device \in DevicesAt(path) :
                /\ attached' = [attached EXCEPT ![path] = Some(device)]
                /\ event_rx' = Append(event_rx, UsbDeviceConnected(device))
    /\ UNCHANGED <<registry, boards, live, scheduler_tx, backplane_last>>

\* A device is unplugged; the USB transport reports it.
UsbUnplug ==
    /\ Len(event_rx) < TransportCapacity
    /\ \E path \in 1..UsbPorts :
          /\ attached[path] # None
          /\ attached' = [attached EXCEPT ![path] = None]
          /\ live' = live \ {path}
          /\ event_rx' = Append(event_rx, UsbDeviceDisconnected(path))
    /\ UNCHANGED <<registry, boards, scheduler_tx, backplane_last>>

\* Backplane::run receives an event and handles it; a send to the scheduler
\* waits for room in the channel.
BackplaneRun ==
    /\ event_rx # <<>>
    /\ \E factory_ok \in BOOLEAN, threads_ok \in BOOLEAN :
          LET event == Head(event_rx)
              r == handle_usb_event(registry, boards, event, factory_ok, threads_ok)
          IN /\ Len(scheduler_tx) + Len(r.send) <= ThreadsCapacity
             /\ boards' = r.boards
             /\ scheduler_tx' = scheduler_tx \o r.send
             /\ live' = IF r.outcome = "Stored"
                             /\ attached[event.device_info.path] = Some(event.device_info)
                        THEN live \cup {event.device_info.path} ELSE live
             /\ backplane_last' = [op |-> event.tag, event |-> event, desc |-> r.desc,
                                   outcome |-> r.outcome, boards_before |-> boards,
                                   sent |-> r.send]
    /\ event_rx' = Tail(event_rx)
    /\ UNCHANGED <<registry, attached>>

\* The scheduler receives a thread vector.
ThreadsRecv ==
    /\ scheduler_tx # <<>>
    /\ scheduler_tx' = Tail(scheduler_tx)
    /\ UNCHANGED <<registry, boards, attached, live, event_rx, backplane_last>>

(***************************************************************************)
(* Scheduler: a job of a source goes to the hash threads, each with its    *)
(* share of the job's extranonce2 range.                                   *)
(***************************************************************************)

\* Up to MaxThreads hash threads are live.
MaxThreads == 3

\* struct HashTask with the extranonce2 range it is to carry
HashTask(job_id, en2_range) == [job_id |-> job_id, en2_range |-> en2_range]

\* The job templates a source hands over: job_to_template gives a job the
\* full range of the extranonce2 size the pool assigned.
JobTemplates ==
    {[id |-> id, extranonce2_range |-> Extranonce2Template_new(size).v]
        : id \in {1, 2}, size \in {1, 4, MAX_SIZE}}

\* The scheduler on ReplaceJob: the job's extranonce2 range is split evenly
\* across the live threads, in their order in the registry, and each thread
\* is given replace_work with its part. What each thread holds afterwards,
\* and whether the split panicked.
replace_job(threads, tasks, job, checks, pointer_width) ==
    LET split == Extranonce2Template_split(job.extranonce2_range, Len(threads),
                                           checks, pointer_width)
    IN IF split.tag = "Panic" THEN [tasks |-> tasks, panicked |-> TRUE, split |-> split]
       ELSE IF split.tag = "None" THEN [tasks |-> tasks, panicked |-> FALSE, split |-> split]
       ELSE [tasks |-> [t \in DOMAIN tasks |->
                          IF \E i \in DOMAIN threads : threads[i] = t
                          THEN Some(HashTask(job.id,
                                   split.v[CHOOSE i \in DOMAIN threads : threads[i] = t]))
                          ELSE tasks[t]],
             panicked |-> FALSE, split |-> split]

VARIABLES
    hash_threads,    \* the live threads, in the order of their arrival
    thread_task,     \* thread -> the task it holds, if any
    scheduler_pc,    \* "running" or "panicked"
    scheduler_last   \* the last event the scheduler handled

schedulerVars == <<hash_threads, thread_task, scheduler_pc, scheduler_last>>

InitScheduler ==
    /\ hash_threads = <<>>
    /\ thread_task = [t \in 1..MaxThreads |-> None]
    /\ scheduler_pc = "running"
    /\ scheduler_last = [op |-> "new"]

\* A thread arrives from the backplane and is appended to the registry.
ThreadArrives ==
    /\ scheduler_pc = "running"
    /\ \E t \in 1..MaxThreads :
          /\ \A i \in DOMAIN hash_threads : hash_threads[i] # t
          /\ hash_threads' = Append(hash_threads, t)
          /\ scheduler_last' = [op |-> "ThreadArrives", thread |-> t]
    /\ UNCHANGED <<thread_task, scheduler_pc>>

\* HashThreadEvent::GoingOffline: the thread is removed.
ThreadGoingOffline ==
    /\ scheduler_pc = "running"
    /\ \E i \in DOMAIN hash_threads :
          /\ hash_threads' = SubSeq(hash_threads, 1, i - 1)
                                \o SubSeq(hash_threads, i + 1, Len(hash_threads))
          /\ thread_task' = [thread_task EXCEPT ![hash_threads[i]] = None]
          /\ scheduler_last' = [op |-> "GoingOffline", thread |-> hash_threads[i]]
    /\ UNCHANGED scheduler_pc

\* SourceEvent::ReplaceJob from a source; the build checks arithmetic
\* overflow or does not, and usize has 32 or 64 bits.
SchedulerReplaceJob ==
    /\ scheduler_pc = "running"
    /\ \E job \in JobTemplates, checks \in BOOLEAN, pointer_width \in {32, 64} :
          LET r == replace_job(hash_threads, thread_task, job, checks, pointer_width)
          IN /\ thread_task' = r.tasks
             /\ scheduler_pc' = IF r.panicked THEN "panicked" ELSE "running"
             /\ scheduler_last' = [op |-> "ReplaceJob", job |-> job, split |-> r.split.tag,
                                   checks |-> checks, pointer_width |-> pointer_width]
    /\ UNCHANGED hash_threads

(***************************************************************************)
(* API: PATCH /miner and the command channel to the scheduler (api/v0.rs). *)
(***************************************************************************)

\* The command channel to the scheduler holds up to SchedulerCommandCapacity
\* commands.
SchedulerCommandCapacity == 1

\* Duration::from_secs(5), the time patch_miner waits for the reply
REPLY_TIMEOUT_SECS == 5

\* StatusCode::OK, StatusCode::INTERNAL_SERVER_ERROR
StatusOk == 200

StatusInternalServerError == 500

\* struct MinerPatchRequest
MinerPatchRequests == [paused : {None, Some(TRUE), Some(FALSE)}]

\* enum SchedulerCommand; `reply` says whose oneshot sender the command
\* carries: the request followed here, or another one.
PauseMining(reply) == [tag |-> "PauseMining", reply |-> reply]

ResumeMining(reply) == [tag |-> "ResumeMining", reply |-> reply]

\* patch_miner: the command for `paused`
command_for(paused, reply) == IF paused THEN PauseMining(reply) ELSE ResumeMining(reply)

\* Mutant of reply_status: any reply of the scheduler counts as success.
reply_status_any_reply(outcome) ==
    IF outcome \in {"Ok", "Err"} THEN StatusOk ELSE StatusInternalServerError

\* patch_miner: let Ok(Ok(Ok(()))) = timeout(5 s, rx).await else 500. The
\* outcome is the reply "Ok" or "Err", "Dropped" when the sender is gone, or
\* "Elapsed".
reply_status(outcome) ==
    IF outcome = "Ok" THEN StatusOk ELSE StatusInternalServerError

VARIABLES
    api_pc,          \* the handler: "idle", "sending", "waiting" or "answered"
    api_request,     \* the MinerPatchRequest being handled
    scheduler_cmd,   \* the command channel: its queue, and whether it is open
    command_held,    \* the command the scheduler received and has not answered
    reply_rx,        \* the oneshot of the request: "none", "pending", "Ok", "Err", "Dropped"
    api_waited,      \* seconds spent waiting for the reply
    api_last         \* the request answered last, and how

apiVars == <<api_pc, api_request, scheduler_cmd, command_held, reply_rx, api_waited, api_last>>

InitApi ==
    /\ api_pc = "idle"
    /\ api_request = [paused |-> None]
    /\ scheduler_cmd = [queue |-> <<>>, open |-> TRUE]
    /\ command_held = <<>>
    /\ reply_rx = "none"
    /\ api_waited = 0
    /\ api_last = [op |-> "new"]

\* The handler's answer, with what led to it.
Answer(status, outcome, sent) ==
    [op |-> "patch_miner", paused |-> api_request.paused, status |-> status,
     body |-> IF status = StatusOk THEN "MinerState" ELSE "",
     outcome |-> outcome, sent |-> sent, waited |-> api_waited]

\* The commands of a request that was answered are, for the next request,
\* those of another one.
OfEarlierRequests(commands) ==
    [i \in DOMAIN commands |-> [commands[i] EXCEPT !.reply = "other"]]

\* PATCH /miner arrives: without `paused` the handler answers at once, else
\* it builds the command and goes on to send it.
PatchMiner ==
    /\ api_pc \in {"idle", "answered"}
    /\ \E req \in MinerPatchRequests :
          /\ api_request' = req
          /\ IF req.paused = None
             THEN /\ api_pc' = "answered"
                  /\ api_last' = [op |-> "patch_miner", paused |-> None,
                                  status |-> StatusOk, body |-> "MinerState",
                                  outcome |-> "NoCommand", sent |-> <<>>, waited |-> 0]
             ELSE /\ api_pc' = "sending"
                  /\ UNCHANGED api_last
    /\ reply_rx' = "none"
    /\ api_waited' = 0
    /\ scheduler_cmd' = [scheduler_cmd EXCEPT !.queue = OfEarlierRequests(@)]
    /\ command_held' = OfEarlierRequests(command_held)

\* scheduler_cmd_tx.send(cmd).await: the command goes into the channel when
\* there is room, and the send fails when the channel is closed.
PatchSend ==
    /\ api_pc = "sending"
    /\ IF ~scheduler_cmd.open
       THEN /\ api_pc' = "answered"
            /\ api_last' = Answer(StatusInternalServerError, "Closed", <<>>)
            /\ UNCHANGED <<scheduler_cmd, reply_rx>>
       ELSE /\ Len(scheduler_cmd.queue) < SchedulerCommandCapacity
            /\ scheduler_cmd' =
                  [scheduler_cmd EXCEPT
                      !.queue = Append(@, command_for(api_request.paused[1], "request"))]
            /\ reply_rx' = "pending"
            /\ api_pc' = "waiting"
            /\ UNCHANGED api_last
    /\ UNCHANGED <<api_request, command_held, api_waited>>

\* A second of waiting for the reply goes by.
PatchWait ==
    /\ api_pc = "waiting"
    /\ reply_rx = "pending"
    /\ api_waited < REPLY_TIMEOUT_SECS
    /\ api_waited' = api_waited + 1
    /\ UNCHANGED <<api_pc, api_request, scheduler_cmd, command_held, reply_rx, api_last>>

\* timeout(5 s, rx) completes: with the reply, with the sender dropped, or
\* with the time elapsed.
PatchAnswer ==
    /\ api_pc = "waiting"
    /\ reply_rx # "pending" \/ api_waited = REPLY_TIMEOUT_SECS
    /\ LET outcome == IF reply_rx = "pending" THEN "Elapsed" ELSE reply_rx
           sent == <<command_for(api_request.paused[1], "request")>>
       IN api_last' = Answer(reply_status(outcome), outcome, sent)
    /\ api_pc' = "answered"
    /\ reply_rx' = "none"
    /\ UNCHANGED <<api_request, scheduler_cmd, command_held, api_waited>>

\* Another request's handler puts its command into the channel.
OtherPatchSend ==
    /\ scheduler_cmd.open
    /\ Len(scheduler_cmd.queue) < SchedulerCommandCapacity
    /\ \E paused \in BOOLEAN :
          scheduler_cmd' =
              [scheduler_cmd EXCEPT !.queue = Append(@, command_for(paused, "other"))]
    /\ UNCHANGED <<api_pc, api_request, command_held, reply_rx, api_waited, api_last>>

\* The reply to a command reaches the oneshot of the request if its
\* receiver is still there.
ReplyAfter(command, outcome) ==
    IF command.reply = "request" /\ reply_rx = "pending" THEN outcome ELSE reply_rx

\* The scheduler receives a command, once it has answered the one before.
SchedulerRecvCommand ==
    /\ scheduler_cmd.open
    /\ scheduler_cmd.queue # <<>>
    /\ command_held = <<>>
    /\ command_held' = Append(command_held, Head(scheduler_cmd.queue))
    /\ scheduler_cmd' = [scheduler_cmd EXCEPT !.queue = Tail(@)]
    /\ UNCHANGED <<api_pc, api_request, reply_rx, api_waited, api_last>>

\* The scheduler answers the command it received first: Ok(()), an error,
\* or it drops the reply sender.
SchedulerReply ==
    /\ command_held # <<>>
    /\ \E outcome \in {"Ok", "Err", "Dropped"} :
          reply_rx' = ReplyAfter(Head(command_held), outcome)
    /\ command_held' = Tail(command_held)
    /\ UNCHANGED <<api_pc, api_request, scheduler_cmd, api_waited, api_last>>

\* The scheduler goes away: the channel closes, and the commands in it are
\* dropped with their reply senders.
SchedulerGone ==
    /\ scheduler_cmd.open
    /\ command_held = <<>>
    /\ scheduler_cmd' = [queue |-> <<>>, open |-> FALSE]
    /\ reply_rx' = IF \E i \in DOMAIN scheduler_cmd.queue :
                         scheduler_cmd.queue[i].reply = "request"
                   THEN ReplyAfter([reply |-> "request"], "Dropped")
                   ELSE reply_rx
    /\ UNCHANGED <<api_pc, api_request, command_held, api_waited, api_last>>

(***************************************************************************)
(* Control channel of the bitaxe-raw protocol                              *)
(* (mgmt_protocol/bitaxe_raw/channel.rs).                                  *)
(***************************************************************************)

\* MaxCallers components share the channel.
MaxCallers == 2

\* Up to MaxUnread responses wait unread in the serial stream.
MaxUnread == 1

\* Up to MaxUnanswered requests are with the device.
MaxUnanswered == 1

\* Duration::from_secs(1), the time send_packet waits for the response
RESPONSE_TIMEOUT_SECS == 1

\* u8::wrapping_add(1)
U8WrappingIncrement(id) == (id + 1) % 256

\* struct Response, with whether it carries a protocol error
Response(id, error) == [id |-> id, error |-> error]

\* Mutant of read_result: the id of the response is not compared.
read_result_any_id(expected_id, item) ==
    IF item.tag = "None" THEN ErrResult("UnexpectedEof")
    ELSE IF item.tag = "Err" THEN ErrResult("Io")
    ELSE IF item.v.error THEN ErrResult("Other")
    ELSE OkResult(item.v)

\* send_packet: what becomes of the item inner.reader.next() yields within
\* the timeout, a response, a read error or the end of the stream.
read_result(expected_id, item) ==
    IF item.tag = "None" THEN ErrResult("UnexpectedEof")
    ELSE IF item.tag = "Err" THEN ErrResult("Io")
    ELSE IF item.v.id # expected_id THEN ErrResult("InvalidData")
    ELSE IF item.v.error THEN ErrResult("Other")
    ELSE OkResult(item.v)

VARIABLES
    next_id,        \* ControlChannelInner::next_id
    channel_lock,   \* the caller that holds the mutex, if any
    caller_pc,      \* caller -> "idle", "locking" or "reading"
    expected_id,    \* caller -> the id of its request, while its call has one
    channel_waited, \* seconds spent waiting for the response
    device_inbox,   \* ids of the requests the device has not answered
    serial_rx,      \* what the reader will yield: responses not yet read
    serial_open,    \* whether the stream is open
    channel_last    \* the last call that returned

channelVars ==
    <<next_id, channel_lock, caller_pc, expected_id, channel_waited, device_inbox,
      serial_rx, serial_open, channel_last>>

\* ControlChannel::new
InitChannel ==
    /\ next_id = 0
    /\ channel_lock = None
    /\ caller_pc = [c \in 1..MaxCallers |-> "idle"]
    /\ expected_id = [c \in 1..MaxCallers |-> None]
    /\ channel_waited = 0
    /\ device_inbox = <<>>
    /\ serial_rx = <<>>
    /\ serial_open = TRUE
    /\ channel_last = [op |-> "new", id |-> 255]

\* The call of caller c, whose packet got the id, returns result r after
\* reading the items of read or meeting the end of the stream; the mutex is
\* released.
Returns(c, id, r, read, eof) ==
    /\ caller_pc' = [caller_pc EXCEPT ![c] = "idle"]
    /\ expected_id' = [expected_id EXCEPT ![c] = None]
    /\ channel_lock' = None
    /\ channel_last' = [op |-> "send_packet", id |-> id,
                        previous_op |-> channel_last.op,
                        previous_id |-> channel_last.id, result |-> r,
                        waited |-> channel_waited, read |-> read, eof |-> eof]

\* A component calls send_packet and waits for the mutex.  No new call is made
\* once a write to the closed stream has failed: the board is gone by then.
SendPacket ==
    /\ ~(channel_last.op = "send_packet" /\ channel_last.result = ErrResult("Write"))
    /\ \E c \in 1..MaxCallers :
          /\ caller_pc[c] = "idle"
          /\ caller_pc' = [caller_pc EXCEPT ![c] = "locking"]
    /\ UNCHANGED <<next_id, channel_lock, expected_id, channel_waited, device_inbox,
                   serial_rx, serial_open, channel_last>>

\* The caller gets the mutex, gives its packet the next id and writes it to
\* the stream; the write fails when the stream is closed.
SendPacketLocked ==
    /\ channel_lock = None
    /\ Len(device_inbox) < MaxUnanswered
    /\ \E c \in 1..MaxCallers :
          /\ caller_pc[c] = "locking"
          /\ next_id' = U8WrappingIncrement(next_id)
          /\ channel_waited' = 0
          /\ IF serial_open
             THEN /\ channel_lock' = Some(c)
                  /\ caller_pc' = [caller_pc EXCEPT ![c] = "reading"]
                  /\ expected_id' = [expected_id EXCEPT ![c] = Some(next_id)]
                  /\ device_inbox' = Append(device_inbox, next_id)
                  /\ UNCHANGED channel_last
             ELSE /\ Returns(c, next_id, ErrResult("Write"), <<>>, FALSE)
                  /\ UNCHANGED device_inbox
    /\ UNCHANGED <<serial_rx, serial_open>>

\* A second of waiting for the response goes by.
SendPacketWait ==
    /\ \E c \in 1..MaxCallers : caller_pc[c] = "reading"
    /\ serial_rx = <<>>
    /\ serial_open
    /\ channel_waited < RESPONSE_TIMEOUT_SECS
    /\ channel_waited' = channel_waited + 1
    /\ UNCHANGED <<next_id, channel_lock, caller_pc, expected_id, device_inbox,
                   serial_rx, serial_open, channel_last>>

\* inner.reader.next() yields a response within the timeout.
SendPacketRead ==
    /\ serial_rx # <<>>
    /\ \E c \in 1..MaxCallers :
          /\ caller_pc[c] = "reading"
          /\ Returns(c, expected_id[c][1],
                     read_result(expected_id[c][1], SomeResult(Head(serial_rx))),
                     <<Head(serial_rx)>>, FALSE)
    /\ serial_rx' = Tail(serial_rx)
    /\ UNCHANGED <<next_id, channel_waited, device_inbox, serial_open>>

\* inner.reader.next() yields the end of the stream within the timeout.
SendPacketEof ==
    /\ serial_rx = <<>>
    /\ ~serial_open
    /\ \E c \in 1..MaxCallers :
          /\ caller_pc[c] = "reading"
          /\ Returns(c, expected_id[c][1], read_result(expected_id[c][1], NoneResult),
                     <<>>, TRUE)
    /\ UNCHANGED <<next_id, channel_waited, device_inbox, serial_rx, serial_open>>

\* The timeout elapses with nothing read.
SendPacketTimeout ==
    /\ serial_rx = <<>>
    /\ serial_open
    /\ channel_waited = RESPONSE_TIMEOUT_SECS
    /\ \E c \in 1..MaxCallers :
          /\ caller_pc[c] = "reading"
          /\ Returns(c, expected_id[c][1], ErrResult("TimedOut"), <<>>, FALSE)
    /\ UNCHANGED <<next_id, channel_waited, device_inbox, serial_rx, serial_open>>

\* The device answers its oldest request, with or without a protocol error.
DeviceResponds ==
    /\ device_inbox # <<>>
    /\ serial_open
    /\ Len(serial_rx) < MaxUnread
    /\ \E error \in BOOLEAN :
          serial_rx' = Append(serial_rx, Response(Head(device_inbox), error))
    /\ device_inbox' = Tail(device_inbox)
    /\ UNCHANGED <<next_id, channel_lock, caller_pc, expected_id, channel_waited,
                   serial_open, channel_last>>

\* The device loses a request and will never answer it.
DeviceLosesRequest ==
    /\ device_inbox # <<>>
    /\ device_inbox' = Tail(device_inbox)
    /\ UNCHANGED <<next_id, channel_lock, caller_pc, expected_id, channel_waited,
                   serial_rx, serial_open, channel_last>>

\* The serial stream closes: the device is unplugged.
SerialCloses ==
    /\ serial_open
    /\ serial_open' = FALSE
    /\ device_inbox' = <<>>
    /\ UNCHANGED <<next_id, channel_lock, caller_pc, expected_id, channel_waited,
                   serial_rx, channel_last>>

(***************************************************************************)
(* Cancellation of ThermalController::run (thermal/controller.rs) and of   *)
(* StratumV1Source::run (job_source/stratum_v1.rs): the runs with the      *)
(* points where they are suspended in a send on a full channel.            *)
(***************************************************************************)
VARIABLES
    run_followed,   \* the run that is followed: "thermal" or "source"
    cancellation,   \* the CancellationToken of ThermalController::run: cancelled or not
    thermal_run,    \* ThermalController::run: "running" or "returned"
    src_pending     \* the client event whose handler is suspended in event_tx.send

cancelVars == <<run_followed, cancellation, thermal_run, src_pending>>

\* Both runs are started and no token is cancelled.
RunsStart(followed) ==
    /\ run_followed = followed
    /\ cancellation = FALSE
    /\ thermal_run = "running"
    /\ src_pending = None

InitCancel == \E followed \in {"thermal", "source"} : RunsStart(followed)

CancelIdle == RunsStart("none")

\* CancellationToken::cancel, by the owner of the thermal controller.
ThermalCancel ==
    /\ run_followed = "thermal"
    /\ ~cancellation
    /\ cancellation' = TRUE
    /\ UNCHANGED <<run_followed, thermal_run, src_pending, thermalVars>>

\* run, the select at the head of the loop with cancellation.cancelled()
\* ready: break. The select is reached between two ticks only, a tick being
\* awaited to its end inside its branch.
ThermalRunCancelled ==
    /\ run_followed = "thermal"
    /\ thermal_run = "running"
    /\ thermal_pc = "idle"
    /\ cancellation
    /\ thermal_run' = "returned"
    /\ UNCHANGED <<run_followed, cancellation, src_pending, thermalVars>>

\* The samples the monitoring loop publishes while the controller is followed
\* to its cancellation: none, a cool board and a board above the maximum.
CancelSamples ==
    {None, Some(NORMAL_THRESHOLD_C - HYSTERESIS_C), Some(config.max_temperature_c + 1)}

\* run, the select with interval.tick() ready: self.tick().await.
ThermalRunTick ==
    /\ run_followed = "thermal"
    /\ thermal_run = "running"
    /\ \E sample \in CancelSamples : TickWith(sample)
    /\ UNCHANGED cancelVars

\* run, suspended in the send of a tick: the send completes.
ThermalRunFinishSend ==
    /\ run_followed = "thermal"
    /\ thermal_run = "running"
    /\ FinishSend
    /\ UNCHANGED cancelVars

\* Time passes while the controller runs.
ThermalRunAdvance ==
    /\ run_followed = "thermal"
    /\ thermal_run = "running"
    /\ Advance
    /\ UNCHANGED cancelVars

\* The consumer of the frequency channel takes a command.
ThermalPeerRecv ==
    /\ run_followed = "thermal"
    /\ FrequencyRecv
    /\ UNCHANGED cancelVars

\* run, main loop, an event of the client whose handler finds the scheduler's
\* channel full: handle_client_event is suspended in event_tx.send(event).await
\* and the select is not reached again before the send completes.
SourceClientEventSuspends(event) ==
    /\ run_followed = "source"
    /\ src_pc = "running"
    /\ client.alive
    /\ LET r == handle_client_event(src_state, first_share_logged, event)
       IN /\ r.send # <<>>
          /\ Len(event_tx) + Len(r.send) > EventCapacity
          /\ src_state' = r.state
          /\ first_share_logged' = r.first_share_logged
          /\ src_pending' = Some([event |-> event, send |-> r.send, result |-> r.result])
    /\ src_pc' = "sending"
    /\ pool' = PoolAfter(pool, event)
    /\ UNCHANGED <<src_result, expected_hashrate, last_suggested_difficulty, shutdown,
                   client, event_tx, client_command_tx, src_last, rates>>
    /\ UNCHANGED <<run_followed, cancellation, thermal_run>>

\* The suspended send completes once the scheduler's channel has room, the
\* handler returns and run is back at its select.
SourceSendResumes ==
    /\ run_followed = "source"
    /\ src_pc = "sending"
    /\ Len(event_tx) + Len(src_pending[1].send) <= EventCapacity
    /\ event_tx' = event_tx \o src_pending[1].send
    /\ src_pc' = "running"
    /\ src_pending' = None
    /\ src_last' = [op |-> src_pending[1].event.kind, arg |-> src_pending[1].event,
                    pc |-> "running", state |-> src_state,
                    last |-> last_suggested_difficulty,
                    out |-> src_pending[1].send, result |-> src_pending[1].result]
    /\ UNCHANGED <<src_result, src_state, expected_hashrate, last_suggested_difficulty,
                   first_share_logged, shutdown, client, client_command_tx, pool, rates>>
    /\ UNCHANGED <<run_followed, cancellation, thermal_run>>

\* The client task observes the cancellation of the token it shares with the
\* source and returns.
ClientCancelled ==
    /\ run_followed = "source"
    /\ shutdown
    /\ client.alive
    /\ client' = [client EXCEPT !.alive = FALSE, !.result = "Ok"]
    /\ client_command_tx' = <<>>
    /\ UNCHANGED <<src_pc, src_result, src_state, expected_hashrate,
                   last_suggested_difficulty, first_share_logged, shutdown, event_tx,
                   src_last, pool, rates>>
    /\ UNCHANGED cancelVars

(***************************************************************************)
(* Difficulty (types/difficulty.rs) with its target computed in full: a    *)
(* Target is a 256-bit number, sixteen limbs with the most significant     *)
(* first.                                                                  *)
(***************************************************************************)

\* Target::MAX, 0xFFFF * 2^208
Target_MAX == <<0, 0, LIMB - 1, 0, 0, 0, 0, 0, 0, 0, 0, 0, 0, 0, 0, 0>>

\* Target::ZERO
Target_ZERO == <<0, 0, 0, 0, 0, 0, 0, 0, 0, 0, 0, 0, 0, 0, 0, 0>>

\* One step of the long division by d: the remainder is doubled and takes the
\* next bit of the dividend, and d is taken off when it fits.
DivStepOf(doubled, bit, d, q) ==
    IF doubled.overflow
          \/ U64Le(d, <<doubled.v[1], doubled.v[2], doubled.v[3], doubled.v[4] + bit>>)
    THEN [r |-> U64WrappingSub(<<doubled.v[1], doubled.v[2], doubled.v[3],
                                 doubled.v[4] + bit>>, d).v,
          q |-> 2 * q + 1]
    ELSE [r |-> <<doubled.v[1], doubled.v[2], doubled.v[3], doubled.v[4] + bit>>,
          q |-> 2 * q]

DivStep(st, bit, d) == DivStepOf(U64WrappingAdd(st.r, st.r), bit, d, st.q)

\* The k low bits of a limb through the division, the highest first.
RECURSIVE DivLimb(_, _, _, _)
DivLimb(st, limb, d, k) ==
    IF k = 0 \/ st.q < 0 THEN st
    ELSE DivLimb(DivStep(st, (limb \div (2 ^ (k - 1))) % 2, d), limb, d, k - 1)

\* The limbs of a from the i-th on through the division by d, with the
\* remainder r of the limbs before them. The tests on st.q, quot and r never
\* hold: they have the values computed before the next limb is entered.
RECURSIVE DivLimbs(_, _, _, _, _)
DivLimbsAfter(a, d, i, st, quot) ==
    IF st.q < 0 THEN quot ELSE DivLimbs(a, d, i + 1, st.r, Append(quot, st.q))

DivLimbs(a, d, i, r, quot) ==
    IF i > Len(a) \/ Len(quot) >= i \/ r[1] < 0 THEN quot
    ELSE DivLimbsAfter(a, d, i, DivLimb([r |-> r, q |-> 0], a[i], d, 16), quot)

\* U256 / u64 for a divisor other than 0
U256_div_u64(a, d) == DivLimbs(a, d, 1, U64_ZERO, <<>>)

\* Ord for Target: the order of the numbers
Target_cmp(a, b) ==
    IF a = b THEN "Equal"
    ELSE IF \E i \in 1..16 : a[i] < b[i] /\ \A j \in 1..(i - 1) : a[j] = b[j]
    THEN "Less"
    ELSE "Greater"

\* Difficulty::from_target
Difficulty_from_target(target) == [target |-> target]

\* impl From<u64> for Difficulty, for a u64 in limbs
Difficulty_from_u64(diff) ==
    IF diff = U64_ZERO THEN Difficulty_from_target(Target_MAX)
    ELSE Difficulty_from_target(U256_div_u64(Target_MAX, diff))

\* impl PartialEq for Difficulty
Difficulty_eq(a, b) == a.target = b.target

\* Mutant of Difficulty_cmp: the order of the targets, not inverted.
Difficulty_cmp_of_targets(a, b) == Target_cmp(a.target, b.target)

\* impl Ord for Difficulty
Difficulty_cmp(a, b) == Target_cmp(b.target, a.target)

\* The difficulties of pools and tests: 0, 1, 2, 100, 1000, 10^6, u64::MAX / 2
\* and u64::MAX.
U64Difficulties ==
    {U64_ZERO, U64_ONE, U64Of(2), U64Of(100), U64Of(1000), U64Of(1000000),
     <<(LIMB \div 2) - 1, LIMB - 1, LIMB - 1, LIMB - 1>>, U64_MAX}

\* Targets handed to from_target: of Difficulty::MAX, of difficulty 1, of
\* difficulty 0.5, the largest 256-bit number, and the hash of a share.
Targets ==
    {Target_ZERO, Target_MAX,
     <<0, 1, LIMB - 2, 0, 0, 0, 0, 0, 0, 0, 0, 0, 0, 0, 0, 0>>,
     [i \in 1..16 |-> LIMB - 1],
     <<0, 0, 0, 0, 1, 2, 3, 4, 5, 6, 7, 8, 9, 10, 11, 12>>}

VARIABLES
    difficulty_a,       \* a Difficulty
    difficulty_b,       \* another Difficulty
    difficulty_last     \* the last operation on them

difficultyVars == <<difficulty_a, difficulty_b, difficulty_last>>

DifficultyStart(a, b) ==
    /\ difficulty_a = a
    /\ difficulty_b = b
    /\ difficulty_last = [op |-> "none"]

InitDifficulty ==
    \E a \in Targets, b \in Targets :
        DifficultyStart(Difficulty_from_target(a), Difficulty_from_target(b))

DifficultyIdle ==
    DifficultyStart(Difficulty_from_target(Target_MAX), Difficulty_from_target(Target_MAX))

\* let a = Difficulty::from(diff), the other difficulty moving to b
DifficultyFromU64 ==
    \E diff \in U64Difficulties :
        /\ difficulty_a' = Difficulty_from_u64(diff)
        /\ difficulty_b' = difficulty_a
        /\ difficulty_last' = [op |-> "from", diff |-> diff]

\* let a = Difficulty::from_target(a.to_target())
DifficultyRoundTrip ==
    /\ difficulty_a' = Difficulty_from_target(Difficulty_to_target(difficulty_a))
    /\ difficulty_last' = [op |-> "round_trip", before |-> difficulty_a,
                           target |-> Difficulty_to_target(difficulty_a)]
    /\ UNCHANGED difficulty_b

\* a == b and a.cmp(&b)
DifficultyCompare ==
    /\ difficulty_last' = [op |-> "cmp", eq |-> Difficulty_eq(difficulty_a, difficulty_b),
                           cmp |-> Difficulty_cmp(difficulty_a, difficulty_b)]
    /\ UNCHANGED <<difficulty_a, difficulty_b>>

(***************************************************************************)
(* Temperature filter (thermal/filter.rs). Readings are whole degrees: the *)
(* f32 sums of such readings are exact, and the mean of a window differs   *)
(* from a whole limit by 1/len at least, far more than f32 rounds by.      *)
(***************************************************************************)

\* The largest window size a filter is constructed with.
MaxWindowSize == 3

\* (-20.0..=100.0), the valid readings
VALID_MIN_C == 0 - 20

VALID_MAX_C == 100

\* TemperatureFilter::new
TemperatureFilter_new(window_size, max_deviation_c) ==
    [window |-> <<>>, window_size |-> window_size, max_deviation_c |-> max_deviation_c]

\* self.window.iter().sum()
RECURSIVE WindowSum(_)
WindowSum(window) == IF window = <<>> THEN 0 ELSE Head(window) + WindowSum(Tail(window))

Abs(x) == IF x < 0 THEN 0 - x ELSE x

\* consider: (temp - avg).abs() > self.max_deviation_c for a window that is
\* not empty, with avg = sum / len; both sides are multiplied by len.
deviates(f, temp) ==
    Abs(temp * Len(f.window) - WindowSum(f.window)) > f.max_deviation_c * Len(f.window)

\* VecDeque::pop_front, nothing for an empty window
pop_front(window) == IF window = <<>> THEN window ELSE Tail(window)

\* TemperatureFilter::consider: the filter after the call and what it returns.
TemperatureFilter_consider(f, temp) ==
    IF ~(VALID_MIN_C <= temp /\ temp <= VALID_MAX_C)
    THEN [filter |-> f, result |-> None]
    ELSE IF f.window # <<>> /\ deviates(f, temp)
    THEN [filter |-> f, result |-> None]
    ELSE [filter |-> [f EXCEPT !.window =
                         Append(IF Len(f.window) = f.window_size
                                THEN pop_front(f.window) ELSE f.window, temp)],
          result |-> Some(temp)]

\* The window sizes and the maximum deviation filters are constructed with.
FilterWindowSizes == {0, 1, MaxWindowSize}

FilterDeviations == {5}

\* Readings: next to the limits of the valid range, and around 45 and 60
\* degrees.
FilterTemperatures ==
    {VALID_MIN_C - 1, VALID_MIN_C, 45, 50, 51, 60, VALID_MAX_C, VALID_MAX_C + 1}

VARIABLES
    filter,             \* TemperatureFilter
    sensor,             \* the sensor: the value it keeps reporting, if it does so
    filter_last,        \* history: the last call of consider
    filter_accepted     \* history: the readings accepted last, oldest first

filterVars == <<filter, sensor, filter_last, filter_accepted>>

FilterStart(f) ==
    /\ filter = f
    /\ sensor = [held |-> None, accepted |-> FALSE]
    /\ filter_last = [op |-> "new", seq |-> 0]
    /\ filter_accepted = <<>>

InitFilter ==
    \E window_size \in FilterWindowSizes, max_deviation_c \in FilterDeviations :
        FilterStart(TemperatureFilter_new(window_size, max_deviation_c))

FilterIdle == FilterStart(TemperatureFilter_new(MaxWindowSize, 5))

\* The last n elements of s, all of them when there are fewer.
LastN(s, n) == IF Len(s) <= n THEN s ELSE SubSeq(s, Len(s) - n + 1, Len(s))

\* filter.consider(temp) with the reading of the sensor. A window that has
\* outgrown MaxWindowSize is not fed further.
FilterConsider ==
    /\ Len(filter.window) <= MaxWindowSize
    /\ \E temp \in (IF sensor.held = None THEN FilterTemperatures ELSE {sensor.held[1]}) :
          LET r == TemperatureFilter_consider(filter, temp)
          IN /\ filter' = r.filter
             /\ filter_last' = [op |-> "consider", seq |-> 1 - filter_last.seq,
                                temp |-> temp, before |-> filter.window,
                                result |-> r.result]
             /\ filter_accepted' =
                   IF r.result = None THEN filter_accepted
                   ELSE LastN(Append(filter_accepted, temp), MaxWindowSize + 1)
             /\ sensor' = [sensor EXCEPT !.accepted =
                              sensor.accepted \/ (sensor.held # None /\ r.result # None)]

\* From now on the sensor keeps reporting the valid reading v.
SensorHolds ==
    /\ sensor.held = None
    /\ Len(filter.window) <= filter.window_size
    /\ \E v \in {t \in FilterTemperatures : VALID_MIN_C <= t /\ t <= VALID_MAX_C} :
          sensor' = [held |-> Some(v), accepted |-> FALSE]
    /\ UNCHANGED <<filter, filter_last, filter_accepted>>

(***************************************************************************)
(* The path of the thermal state over the ticks (thermal/state.rs,         *)
(* thermal/controller.rs).                                                 *)
(*                                                                         *)
(* The controller is followed with a record of history: the run of ticks   *)
(* that found the same temperature, and the number of samples since the    *)
(* state was NORMAL and since it was CRITICAL.                             *)
(***************************************************************************)

\* The steps of severity from NORMAL to CRITICAL.
SeverityLevels == state_severity("CRITICAL")

VARIABLES
    steady      \* history: the run of samples of one temperature, and the
                \* samples since NORMAL and since CRITICAL

steadyVars == <<steady>>

\* No sample yet; the controller starts NORMAL and was never CRITICAL.
SteadyStart ==
    steady = [temp |-> None, n |-> 0, start |-> "NORMAL", ups |-> FALSE, downs |-> FALSE,
              moved_late |-> FALSE, since_normal |-> 0, since_critical |-> SeverityLevels]

SteadyIdle == SteadyStart

\* The history after a tick that found `temperature` and took the state from
\* `previous` to `new_state`. Counters stop at their bounds.
SteadyAfter(h, temperature, previous, new_state) ==
    LET same == h.temp = Some(temperature)
        n == IF same THEN (IF h.n < MaxRun THEN h.n + 1 ELSE MaxRun) ELSE 1
    IN [temp |-> Some(temperature),
        n |-> n,
        start |-> IF same THEN h.start ELSE previous,
        ups |-> (same /\ h.ups) \/ state_severity(new_state) > state_severity(previous),
        downs |-> (same /\ h.downs) \/ state_severity(new_state) < state_severity(previous),
        moved_late |-> (same /\ h.moved_late) \/ (n > SeverityLevels /\ new_state # previous),
        since_normal |-> IF new_state = "NORMAL" THEN 0
                         ELSE IF h.since_normal < SeverityLevels THEN h.since_normal + 1
                         ELSE SeverityLevels,
        since_critical |-> IF new_state = "CRITICAL" THEN 0
                           ELSE IF h.since_critical < SeverityLevels
                                THEN h.since_critical + 1
                           ELSE SeverityLevels]

\* Temperature samples: the two ends of the hysteresis band of every
\* threshold of the configuration.
SteadyTemperatures(cfg) ==
    { NORMAL_THRESHOLD_C - HYSTERESIS_C, NORMAL_THRESHOLD_C + 1,
      cfg.target_temperature_c - HYSTERESIS_C, cfg.target_temperature_c + 1,
      cfg.max_temperature_c - HYSTERESIS_C, cfg.max_temperature_c + 1 }

\* An interval tick of the controller, with the history: the first tick, or
\* the tick one period after the last that found a sample.
SteadyTick ==
    /\ last_tick_time = None \/ last_tick_time # Some(now)
    /\ \E sample \in {None} \cup { Some(t) : t \in SteadyTemperatures(config) } :
           /\ TickWith(sample)
           /\ steady' = IF sample = None THEN steady
                        ELSE SteadyAfter(steady, sample[1], current_state, current_state')

SteadyFinishSend == FinishSend /\ UNCHANGED steady

\* The period of the interval passes.
SteadyAdvance ==
    /\ last_tick_time = Some(now)
    /\ now + TICK_DURATION <= MaxSteadyNow
    /\ now' = now + TICK_DURATION
    /\ UNCHANGED <<config, fan_pid, current_state, last_tick_time, last_frequency_adjust,
                   temperature_rx, fan_speed_rx, frequency_ch, thermal_pc, pending_cmd,
                   tick, s5, steady>>

SteadyFrequencyRecv == FrequencyRecv /\ UNCHANGED steady

(***************************************************************************)
(* The control channel with a device that answers every request once, and  *)
(* late at most until a call has timed out                                 *)
(* (mgmt_protocol/bitaxe_raw/channel.rs).                                  *)
(***************************************************************************)
VARIABLES
    timed_out   \* history: a call of send_packet has returned TimedOut

resyncVars == <<timed_out>>

ResyncStart == timed_out = FALSE

ResyncIdle == ResyncStart

\* A component calls send_packet.
ResyncSendPacket == SendPacket /\ UNCHANGED timed_out

\* The caller gets the mutex and writes its packet.
ResyncSendPacketLocked == SendPacketLocked /\ UNCHANGED timed_out

\* The device lets a second go by; once a call has timed out it answers in
\* time.
ResyncSendPacketWait == ~timed_out /\ SendPacketWait /\ UNCHANGED timed_out

\* The reader yields a response.
ResyncSendPacketRead == SendPacketRead /\ UNCHANGED timed_out

\* The timeout elapses.
ResyncSendPacketTimeout == SendPacketTimeout /\ timed_out' = TRUE

\* The device answers its oldest request.
ResyncDeviceResponds == DeviceResponds /\ UNCHANGED timed_out

(***************************************************************************)
(* The Stratum source and its coordinator on their two channels            *)
(* (job_source/messages.rs, job_source/stratum_v1.rs): events go from the  *)
(* source to the coordinator, commands from the coordinator to the source. *)
(***************************************************************************)

\* The source's command channel holds at most SourceCommandCapacity commands.
SourceCommandCapacity == 1

\* enum SourceCommand
SubmitShareCommand(share) == [kind |-> "SubmitShare", share |-> share]

UpdateHashRateCommand(rate) == [kind |-> "UpdateHashRate", rate |-> rate]

VARIABLES
    command_rx,        \* the source's command channel: commands not yet received
    coordinator_pc,    \* the coordinator: "select", or "submitting": suspended in
                       \* SourceHandle::submit_share
    coordinator_held   \* the share of the suspended submit_share

busVars == <<command_rx, coordinator_pc, coordinator_held>>

BusStart ==
    /\ command_rx = <<>>
    /\ coordinator_pc = "select"
    /\ coordinator_held = None

BusIdle == BusStart

\* The coordinator reports the hashrate of its threads to the source when the
\* command channel has room.
CoordinatorUpdateHashRate ==
    /\ coordinator_pc = "select"
    /\ Len(command_rx) < SourceCommandCapacity
    /\ command_rx' = Append(command_rx, UpdateHashRateCommand(MaxHashRate))
    /\ UNCHANGED <<coordinator_pc, coordinator_held, sourceVars, cancelVars>>

\* The coordinator, on a share found by a thread: handle.submit_share(share)
\* .await, which sends SourceCommand::SubmitShare(share) on the command
\* channel and is suspended while the channel is full.
CoordinatorSubmitShare ==
    /\ coordinator_pc = "select"
    /\ \E share \in Shares :
          IF Len(command_rx) < SourceCommandCapacity
          THEN /\ command_rx' = Append(command_rx, SubmitShareCommand(share))
               /\ UNCHANGED <<coordinator_pc, coordinator_held>>
          ELSE /\ coordinator_pc' = "submitting"
               /\ coordinator_held' = Some(share)
               /\ UNCHANGED command_rx
    /\ UNCHANGED <<sourceVars, cancelVars>>

\* The suspended submit_share completes once the command channel has room.
CoordinatorSubmitResumes ==
    /\ coordinator_pc = "submitting"
    /\ Len(command_rx) < SourceCommandCapacity
    /\ command_rx' = Append(command_rx, SubmitShareCommand(coordinator_held[1]))
    /\ coordinator_pc' = "select"
    /\ coordinator_held' = None
    /\ UNCHANGED <<sourceVars, cancelVars>>

\* The coordinator, at its select, takes an event of the source.
CoordinatorRecvEvent ==
    /\ coordinator_pc = "select"
    /\ SchedulerRecv
    /\ UNCHANGED <<busVars, cancelVars>>

\* run, at one of its selects, takes a command from command_rx.
SourceRecvCommand ==
    /\ command_rx # <<>>
    /\ LET command == Head(command_rx)
       IN IF command.kind = "SubmitShare"
          THEN WaitSubmitShare(command.share) \/ RunSubmitShare(command.share)
          ELSE WaitUpdateHashRate(command.rate) \/ RunUpdateHashRate(command.rate)
    /\ command_rx' = Tail(command_rx)
    /\ UNCHANGED <<coordinator_pc, coordinator_held, cancelVars>>

\* The events of the client while the source is followed on its channels.
BusEvents == SubscribedEvents \cup NewJobEvents \cup DisconnectedEvents

\* run, main loop, an event of the client whose handler returns.
BusClientEvent ==
    /\ \E event \in BusEvents : SourceClientEvent(event)
    /\ UNCHANGED <<busVars, cancelVars>>

\* run, main loop, an event of the client whose handler is suspended in
\* event_tx.send.
BusClientEventSuspends ==
    /\ \E event \in BusEvents : SourceClientEventSuspends(event)
    /\ UNCHANGED busVars

\* The suspended send of the handler completes.
BusSendResumes == SourceSendResumes /\ UNCHANGED busVars

\* The client takes a command from its channel.
BusClientRecv == ClientRecv /\ UNCHANGED <<busVars, cancelVars>>

(***************************************************************************)
(* Specifications. Each one runs one component; the others stay as they    *)
(* are constructed.                                                        *)
(***************************************************************************)
vars == <<thermalVars, en2Vars, alarmVars, sourceVars, backoffVars, codecVars,
         backplaneVars,
         schedulerVars,
         apiVars,
         channelVars,
         cancelVars,
         difficultyVars,
         filterVars,
         steadyVars,
         resyncVars,
         busVars>>

ThermalIdle == ThermalStart(DefaultController)

\* The thermal controller.
Init == InitThermal /\ En2Idle /\ AlarmIdle /\ SourceIdle /\ BackoffIdle /\ CodecIdle /\ BackplaneIdle /\ InitScheduler /\ InitApi /\ InitChannel /\ CancelIdle /\ DifficultyIdle /\ FilterIdle /\ SteadyIdle /\ ResyncIdle /\ BusIdle

Next ==
    \/ Advance /\ UNCHANGED <<en2Vars, alarmVars, sourceVars, backoffVars, codecVars, backplaneVars, schedulerVars, apiVars, channelVars, cancelVars, difficultyVars, filterVars, steadyVars, resyncVars, busVars>>
    \/ FrequencyRecv /\ UNCHANGED <<en2Vars, alarmVars, sourceVars, backoffVars, codecVars, backplaneVars, schedulerVars, apiVars, channelVars, cancelVars, difficultyVars, filterVars, steadyVars, resyncVars, busVars>>
    \/ Tick /\ UNCHANGED <<en2Vars, alarmVars, sourceVars, backoffVars, codecVars, backplaneVars, schedulerVars, apiVars, channelVars, cancelVars, difficultyVars, filterVars, steadyVars, resyncVars, busVars>>
    \/ FinishSend /\ UNCHANGED <<en2Vars, alarmVars, sourceVars, backoffVars, codecVars, backplaneVars, schedulerVars, apiVars, channelVars, cancelVars, difficultyVars, filterVars, steadyVars, resyncVars, busVars>>

Spec == Init /\ [][Next]_vars

\* The extranonce2 template.
InitSpecEn2 == InitEn2 /\ ThermalIdle /\ AlarmIdle /\ SourceIdle /\ BackoffIdle /\ CodecIdle /\ BackplaneIdle /\ InitScheduler /\ InitApi /\ InitChannel /\ CancelIdle /\ DifficultyIdle /\ FilterIdle /\ SteadyIdle /\ ResyncIdle /\ BusIdle

NextSpecEn2 ==
    \/ En2New /\ UNCHANGED <<thermalVars, alarmVars, sourceVars, backoffVars, codecVars, backplaneVars, schedulerVars, apiVars, channelVars, cancelVars, difficultyVars, filterVars, steadyVars, resyncVars, busVars>>
    \/ En2NewRange /\ UNCHANGED <<thermalVars, alarmVars, sourceVars, backoffVars, codecVars, backplaneVars, schedulerVars, apiVars, channelVars, cancelVars, difficultyVars, filterVars, steadyVars, resyncVars, busVars>>
    \/ En2Current /\ UNCHANGED <<thermalVars, alarmVars, sourceVars, backoffVars, codecVars, backplaneVars, schedulerVars, apiVars, channelVars, cancelVars, difficultyVars, filterVars, steadyVars, resyncVars, busVars>>
    \/ En2Next /\ UNCHANGED <<thermalVars, alarmVars, sourceVars, backoffVars, codecVars, backplaneVars, schedulerVars, apiVars, channelVars, cancelVars, difficultyVars, filterVars, steadyVars, resyncVars, busVars>>
    \/ En2Increment /\ UNCHANGED <<thermalVars, alarmVars, sourceVars, backoffVars, codecVars, backplaneVars, schedulerVars, apiVars, channelVars, cancelVars, difficultyVars, filterVars, steadyVars, resyncVars, busVars>>
    \/ En2Reset /\ UNCHANGED <<thermalVars, alarmVars, sourceVars, backoffVars, codecVars, backplaneVars, schedulerVars, apiVars, channelVars, cancelVars, difficultyVars, filterVars, steadyVars, resyncVars, busVars>>
    \/ En2SearchSpace /\ UNCHANGED <<thermalVars, alarmVars, sourceVars, backoffVars, codecVars, backplaneVars, schedulerVars, apiVars, channelVars, cancelVars, difficultyVars, filterVars, steadyVars, resyncVars, busVars>>
    \/ En2Split /\ UNCHANGED <<thermalVars, alarmVars, sourceVars, backoffVars, codecVars, backplaneVars, schedulerVars, apiVars, channelVars, cancelVars, difficultyVars, filterVars, steadyVars, resyncVars, busVars>>
    \/ En2Adopt /\ UNCHANGED <<thermalVars, alarmVars, sourceVars, backoffVars, codecVars, backplaneVars, schedulerVars, apiVars, channelVars, cancelVars, difficultyVars, filterVars, steadyVars, resyncVars, busVars>>

SpecEn2 == InitSpecEn2 /\ [][NextSpecEn2]_vars

\* The debounced alarm.
InitSpecAlarm == InitAlarm /\ ThermalIdle /\ En2Idle /\ SourceIdle /\ BackoffIdle /\ CodecIdle /\ BackplaneIdle /\ InitScheduler /\ InitApi /\ InitChannel /\ CancelIdle /\ DifficultyIdle /\ FilterIdle /\ SteadyIdle /\ ResyncIdle /\ BusIdle

NextSpecAlarm ==
    \/ AlarmAdvance /\ UNCHANGED <<thermalVars, en2Vars, sourceVars, backoffVars, codecVars, backplaneVars, schedulerVars, apiVars, channelVars, cancelVars, difficultyVars, filterVars, steadyVars, resyncVars, busVars>>
    \/ AlarmCheck /\ UNCHANGED <<thermalVars, en2Vars, sourceVars, backoffVars, codecVars, backplaneVars, schedulerVars, apiVars, channelVars, cancelVars, difficultyVars, filterVars, steadyVars, resyncVars, busVars>>
    \/ AlarmReset /\ UNCHANGED <<thermalVars, en2Vars, sourceVars, backoffVars, codecVars, backplaneVars, schedulerVars, apiVars, channelVars, cancelVars, difficultyVars, filterVars, steadyVars, resyncVars, busVars>>

SpecAlarm == InitSpecAlarm /\ [][NextSpecAlarm]_vars

\* The Stratum source translating the events of a pool for the scheduler.
InitSpecSource == InitSource /\ ThermalIdle /\ En2Idle /\ AlarmIdle /\ BackoffIdle /\ CodecIdle /\ BackplaneIdle /\ InitScheduler /\ InitApi /\ InitChannel /\ CancelIdle /\ DifficultyIdle /\ FilterIdle /\ SteadyIdle /\ ResyncIdle /\ BusIdle

NextSpecSource ==
    \/ (\E rate \in {0, MaxHashRate} : WaitUpdateHashRate(rate)) /\ UNCHANGED <<thermalVars, en2Vars, alarmVars, backoffVars, codecVars, backplaneVars, schedulerVars, apiVars, channelVars, cancelVars, difficultyVars, filterVars, steadyVars, resyncVars, busVars>>
    \/ (\E event \in VersionRollingConfiguredEvents : SourceClientEvent(event)) /\ UNCHANGED <<thermalVars, en2Vars, alarmVars, backoffVars, codecVars, backplaneVars, schedulerVars, apiVars, channelVars, cancelVars, difficultyVars, filterVars, steadyVars, resyncVars, busVars>>
    \/ (\E event \in SubscribedEvents : SourceClientEvent(event)) /\ UNCHANGED <<thermalVars, en2Vars, alarmVars, backoffVars, codecVars, backplaneVars, schedulerVars, apiVars, channelVars, cancelVars, difficultyVars, filterVars, steadyVars, resyncVars, busVars>>
    \/ (\E event \in NewJobEvents : SourceClientEvent(event)) /\ UNCHANGED <<thermalVars, en2Vars, alarmVars, backoffVars, codecVars, backplaneVars, schedulerVars, apiVars, channelVars, cancelVars, difficultyVars, filterVars, steadyVars, resyncVars, busVars>>
    \/ (\E event \in DifficultyChangedEvents : SourceClientEvent(event)) /\ UNCHANGED <<thermalVars, en2Vars, alarmVars, backoffVars, codecVars, backplaneVars, schedulerVars, apiVars, channelVars, cancelVars, difficultyVars, filterVars, steadyVars, resyncVars, busVars>>
    \/ (\E event \in VersionMaskSetEvents : SourceClientEvent(event)) /\ UNCHANGED <<thermalVars, en2Vars, alarmVars, backoffVars, codecVars, backplaneVars, schedulerVars, apiVars, channelVars, cancelVars, difficultyVars, filterVars, steadyVars, resyncVars, busVars>>
    \/ (\E event \in DisconnectedEvents : SourceClientEvent(event)) /\ UNCHANGED <<thermalVars, en2Vars, alarmVars, backoffVars, codecVars, backplaneVars, schedulerVars, apiVars, channelVars, cancelVars, difficultyVars, filterVars, steadyVars, resyncVars, busVars>>
    \/ RunClientClosed /\ UNCHANGED <<thermalVars, en2Vars, alarmVars, backoffVars, codecVars, backplaneVars, schedulerVars, apiVars, channelVars, cancelVars, difficultyVars, filterVars, steadyVars, resyncVars, busVars>>
    \/ Join /\ UNCHANGED <<thermalVars, en2Vars, alarmVars, backoffVars, codecVars, backplaneVars, schedulerVars, apiVars, channelVars, cancelVars, difficultyVars, filterVars, steadyVars, resyncVars, busVars>>
    \/ ClientExit /\ UNCHANGED <<thermalVars, en2Vars, alarmVars, backoffVars, codecVars, backplaneVars, schedulerVars, apiVars, channelVars, cancelVars, difficultyVars, filterVars, steadyVars, resyncVars, busVars>>
    \/ SchedulerRecv /\ UNCHANGED <<thermalVars, en2Vars, alarmVars, backoffVars, codecVars, backplaneVars, schedulerVars, apiVars, channelVars, cancelVars, difficultyVars, filterVars, steadyVars, resyncVars, busVars>>

SpecSource == InitSpecSource /\ [][NextSpecSource]_vars

\* The Stratum source submitting the shares of the scheduler to a pool.
NextSpecSubmit ==
    \/ (\E rate \in {0, MaxHashRate} : WaitUpdateHashRate(rate)) /\ UNCHANGED <<thermalVars, en2Vars, alarmVars, backoffVars, codecVars, backplaneVars, schedulerVars, apiVars, channelVars, cancelVars, difficultyVars, filterVars, steadyVars, resyncVars, busVars>>
    \/ (\E share \in Shares : WaitSubmitShare(share)) /\ UNCHANGED <<thermalVars, en2Vars, alarmVars, backoffVars, codecVars, backplaneVars, schedulerVars, apiVars, channelVars, cancelVars, difficultyVars, filterVars, steadyVars, resyncVars, busVars>>
    \/ (\E event \in VersionRollingConfiguredEvents : SourceClientEvent(event)) /\ UNCHANGED <<thermalVars, en2Vars, alarmVars, backoffVars, codecVars, backplaneVars, schedulerVars, apiVars, channelVars, cancelVars, difficultyVars, filterVars, steadyVars, resyncVars, busVars>>
    \/ (\E event \in SubscribedEvents : SourceClientEvent(event)) /\ UNCHANGED <<thermalVars, en2Vars, alarmVars, backoffVars, codecVars, backplaneVars, schedulerVars, apiVars, channelVars, cancelVars, difficultyVars, filterVars, steadyVars, resyncVars, busVars>>
    \/ (\E event \in VersionMaskSetEvents : SourceClientEvent(event)) /\ UNCHANGED <<thermalVars, en2Vars, alarmVars, backoffVars, codecVars, backplaneVars, schedulerVars, apiVars, channelVars, cancelVars, difficultyVars, filterVars, steadyVars, resyncVars, busVars>>
    \/ (\E event \in ShareAcceptedEvents : SourceClientEvent(event)) /\ UNCHANGED <<thermalVars, en2Vars, alarmVars, backoffVars, codecVars, backplaneVars, schedulerVars, apiVars, channelVars, cancelVars, difficultyVars, filterVars, steadyVars, resyncVars, busVars>>
    \/ (\E event \in ShareRejectedEvents : SourceClientEvent(event)) /\ UNCHANGED <<thermalVars, en2Vars, alarmVars, backoffVars, codecVars, backplaneVars, schedulerVars, apiVars, channelVars, cancelVars, difficultyVars, filterVars, steadyVars, resyncVars, busVars>>
    \/ (\E event \in ErrorEvents : SourceClientEvent(event)) /\ UNCHANGED <<thermalVars, en2Vars, alarmVars, backoffVars, codecVars, backplaneVars, schedulerVars, apiVars, channelVars, cancelVars, difficultyVars, filterVars, steadyVars, resyncVars, busVars>>
    \/ (\E share \in Shares : RunSubmitShare(share)) /\ UNCHANGED <<thermalVars, en2Vars, alarmVars, backoffVars, codecVars, backplaneVars, schedulerVars, apiVars, channelVars, cancelVars, difficultyVars, filterVars, steadyVars, resyncVars, busVars>>
    \/ RunClientClosed /\ UNCHANGED <<thermalVars, en2Vars, alarmVars, backoffVars, codecVars, backplaneVars, schedulerVars, apiVars, channelVars, cancelVars, difficultyVars, filterVars, steadyVars, resyncVars, busVars>>
    \/ Join /\ UNCHANGED <<thermalVars, en2Vars, alarmVars, backoffVars, codecVars, backplaneVars, schedulerVars, apiVars, channelVars, cancelVars, difficultyVars, filterVars, steadyVars, resyncVars, busVars>>
    \/ ClientExit /\ UNCHANGED <<thermalVars, en2Vars, alarmVars, backoffVars, codecVars, backplaneVars, schedulerVars, apiVars, channelVars, cancelVars, difficultyVars, filterVars, steadyVars, resyncVars, busVars>>
    \/ ClientRecv /\ UNCHANGED <<thermalVars, en2Vars, alarmVars, backoffVars, codecVars, backplaneVars, schedulerVars, apiVars, channelVars, cancelVars, difficultyVars, filterVars, steadyVars, resyncVars, busVars>>

SpecSubmit == InitSpecSource /\ [][NextSpecSubmit]_vars

\* The Stratum source following the hashrate the scheduler reports, with a
\* pool that stays silent.
NextSpecSuggest ==
    \/ Cancel /\ UNCHANGED <<thermalVars, en2Vars, alarmVars, backoffVars, codecVars, backplaneVars, schedulerVars, apiVars, channelVars, cancelVars, difficultyVars, filterVars, steadyVars, resyncVars, busVars>>
    \/ (\E rate \in 0..MaxHashRate : WaitUpdateHashRate(rate)) /\ UNCHANGED <<thermalVars, en2Vars, alarmVars, backoffVars, codecVars, backplaneVars, schedulerVars, apiVars, channelVars, cancelVars, difficultyVars, filterVars, steadyVars, resyncVars, busVars>>
    \/ (\E share \in Shares : WaitSubmitShare(share)) /\ UNCHANGED <<thermalVars, en2Vars, alarmVars, backoffVars, codecVars, backplaneVars, schedulerVars, apiVars, channelVars, cancelVars, difficultyVars, filterVars, steadyVars, resyncVars, busVars>>
    \/ WaitShutdown /\ UNCHANGED <<thermalVars, en2Vars, alarmVars, backoffVars, codecVars, backplaneVars, schedulerVars, apiVars, channelVars, cancelVars, difficultyVars, filterVars, steadyVars, resyncVars, busVars>>
    \/ (\E rate \in 0..MaxHashRate : RunUpdateHashRate(rate)) /\ UNCHANGED <<thermalVars, en2Vars, alarmVars, backoffVars, codecVars, backplaneVars, schedulerVars, apiVars, channelVars, cancelVars, difficultyVars, filterVars, steadyVars, resyncVars, busVars>>
    \/ RunShutdown /\ UNCHANGED <<thermalVars, en2Vars, alarmVars, backoffVars, codecVars, backplaneVars, schedulerVars, apiVars, channelVars, cancelVars, difficultyVars, filterVars, steadyVars, resyncVars, busVars>>
    \/ RunClientClosed /\ UNCHANGED <<thermalVars, en2Vars, alarmVars, backoffVars, codecVars, backplaneVars, schedulerVars, apiVars, channelVars, cancelVars, difficultyVars, filterVars, steadyVars, resyncVars, busVars>>
    \/ Join /\ UNCHANGED <<thermalVars, en2Vars, alarmVars, backoffVars, codecVars, backplaneVars, schedulerVars, apiVars, channelVars, cancelVars, difficultyVars, filterVars, steadyVars, resyncVars, busVars>>
    \/ ClientExit /\ UNCHANGED <<thermalVars, en2Vars, alarmVars, backoffVars, codecVars, backplaneVars, schedulerVars, apiVars, channelVars, cancelVars, difficultyVars, filterVars, steadyVars, resyncVars, busVars>>
    \/ ClientRecv /\ UNCHANGED <<thermalVars, en2Vars, alarmVars, backoffVars, codecVars, backplaneVars, schedulerVars, apiVars, channelVars, cancelVars, difficultyVars, filterVars, steadyVars, resyncVars, busVars>>

SpecSuggest == InitSpecSource /\ [][NextSpecSuggest]_vars

\* A backoff that delays are drawn from and that is reset.
InitSpecBackoff == InitBackoff /\ ThermalIdle /\ En2Idle /\ AlarmIdle /\ SourceIdle /\ CodecIdle /\ BackplaneIdle /\ InitScheduler /\ InitApi /\ InitChannel /\ CancelIdle /\ DifficultyIdle /\ FilterIdle /\ SteadyIdle /\ ResyncIdle /\ BusIdle

NextSpecBackoff ==
    \/ (\E hash \in 0..JitterLevels : BackoffNextDelay(hash))
          /\ UNCHANGED <<thermalVars, en2Vars, alarmVars, sourceVars, codecVars, backplaneVars, schedulerVars, apiVars, channelVars, cancelVars, difficultyVars, filterVars, steadyVars, resyncVars, busVars>>
    \/ BackoffReset /\ UNCHANGED <<thermalVars, en2Vars, alarmVars, sourceVars, codecVars, backplaneVars, schedulerVars, apiVars, channelVars, cancelVars, difficultyVars, filterVars, steadyVars, resyncVars, busVars>>

SpecBackoff == InitSpecBackoff /\ [][NextSpecBackoff]_vars

\* The dissector is fed a capture byte by byte and flushed at its end.
InitSpecCodec ==
    InitCodec /\ ThermalIdle /\ En2Idle /\ AlarmIdle /\ SourceIdle /\ BackoffIdle /\ BackplaneIdle /\ InitScheduler /\ InitApi /\ InitChannel /\ CancelIdle /\ DifficultyIdle /\ FilterIdle /\ SteadyIdle /\ ResyncIdle /\ BusIdle

NextSpecCodec ==
    \/ CodecFeed
          /\ UNCHANGED <<thermalVars, en2Vars, alarmVars, sourceVars, backoffVars, backplaneVars, schedulerVars, apiVars, channelVars, cancelVars, difficultyVars, filterVars, steadyVars, resyncVars, busVars>>
    \/ CodecFlush
          /\ UNCHANGED <<thermalVars, en2Vars, alarmVars, sourceVars, backoffVars, backplaneVars, schedulerVars, apiVars, channelVars, cancelVars, difficultyVars, filterVars, steadyVars, resyncVars, busVars>>

SpecCodec == InitSpecCodec /\ [][NextSpecCodec]_vars

\* The dissector is fed a capture whose stray bytes may have framing errors.
NextSpecCodecNoisy ==
    \/ CodecFeedNoisy
          /\ UNCHANGED <<thermalVars, en2Vars, alarmVars, sourceVars, backoffVars, backplaneVars, schedulerVars, apiVars, channelVars, cancelVars, difficultyVars, filterVars, steadyVars, resyncVars, busVars>>
    \/ CodecFlush
          /\ UNCHANGED <<thermalVars, en2Vars, alarmVars, sourceVars, backoffVars, backplaneVars, schedulerVars, apiVars, channelVars, cancelVars, difficultyVars, filterVars, steadyVars, resyncVars, busVars>>

SpecCodecNoisy == InitSpecCodec /\ [][NextSpecCodecNoisy]_vars

\* The backplane handles the devices that come and go.
InitSpecBackplane ==
    InitBackplane /\ ThermalIdle /\ En2Idle /\ AlarmIdle /\ SourceIdle /\ BackoffIdle /\ CodecIdle /\ InitScheduler /\ InitApi /\ InitChannel /\ CancelIdle /\ DifficultyIdle /\ FilterIdle /\ SteadyIdle /\ ResyncIdle /\ BusIdle

NextSpecBackplane ==
    \/ UsbPlug
          /\ UNCHANGED <<thermalVars, en2Vars, alarmVars, sourceVars, backoffVars, codecVars, schedulerVars, apiVars, channelVars, cancelVars, difficultyVars, filterVars, steadyVars, resyncVars, busVars>>
    \/ UsbUnplug
          /\ UNCHANGED <<thermalVars, en2Vars, alarmVars, sourceVars, backoffVars, codecVars, schedulerVars, apiVars, channelVars, cancelVars, difficultyVars, filterVars, steadyVars, resyncVars, busVars>>
    \/ BackplaneRun
          /\ UNCHANGED <<thermalVars, en2Vars, alarmVars, sourceVars, backoffVars, codecVars, schedulerVars, apiVars, channelVars, cancelVars, difficultyVars, filterVars, steadyVars, resyncVars, busVars>>
    \/ ThreadsRecv
          /\ UNCHANGED <<thermalVars, en2Vars, alarmVars, sourceVars, backoffVars, codecVars, schedulerVars, apiVars, channelVars, cancelVars, difficultyVars, filterVars, steadyVars, resyncVars, busVars>>

SpecBackplane == InitSpecBackplane /\ [][NextSpecBackplane]_vars

\* The scheduler hands the jobs of a source to the threads that come and go.
InitSpecScheduler ==
    InitScheduler /\ ThermalIdle /\ En2Idle /\ AlarmIdle /\ SourceIdle /\ BackoffIdle
        /\ CodecIdle /\ BackplaneIdle /\ InitApi /\ InitChannel /\ CancelIdle /\ DifficultyIdle /\ FilterIdle /\ SteadyIdle /\ ResyncIdle /\ BusIdle

NextSpecScheduler ==
    \/ ThreadArrives
          /\ UNCHANGED <<thermalVars, en2Vars, alarmVars, sourceVars, backoffVars, codecVars, backplaneVars, apiVars, channelVars, cancelVars, difficultyVars, filterVars, steadyVars, resyncVars, busVars>>
    \/ ThreadGoingOffline
          /\ UNCHANGED <<thermalVars, en2Vars, alarmVars, sourceVars, backoffVars, codecVars, backplaneVars, apiVars, channelVars, cancelVars, difficultyVars, filterVars, steadyVars, resyncVars, busVars>>
    \/ SchedulerReplaceJob
          /\ UNCHANGED <<thermalVars, en2Vars, alarmVars, sourceVars, backoffVars, codecVars, backplaneVars, apiVars, channelVars, cancelVars, difficultyVars, filterVars, steadyVars, resyncVars, busVars>>

SpecScheduler == InitSpecScheduler /\ [][NextSpecScheduler]_vars

\* PATCH /miner against a scheduler that answers, fails, stalls or goes away.
InitSpecApi ==
    InitApi /\ ThermalIdle /\ En2Idle /\ AlarmIdle /\ SourceIdle /\ BackoffIdle
        /\ CodecIdle /\ BackplaneIdle /\ InitScheduler /\ InitChannel /\ CancelIdle /\ DifficultyIdle /\ FilterIdle /\ SteadyIdle /\ ResyncIdle /\ BusIdle

NextSpecApi ==
    \/ PatchMiner
          /\ UNCHANGED <<thermalVars, en2Vars, alarmVars, sourceVars, backoffVars, codecVars, backplaneVars, schedulerVars, channelVars, cancelVars, difficultyVars, filterVars, steadyVars, resyncVars, busVars>>
    \/ PatchSend
          /\ UNCHANGED <<thermalVars, en2Vars, alarmVars, sourceVars, backoffVars, codecVars, backplaneVars, schedulerVars, channelVars, cancelVars, difficultyVars, filterVars, steadyVars, resyncVars, busVars>>
    \/ PatchWait
          /\ UNCHANGED <<thermalVars, en2Vars, alarmVars, sourceVars, backoffVars, codecVars, backplaneVars, schedulerVars, channelVars, cancelVars, difficultyVars, filterVars, steadyVars, resyncVars, busVars>>
    \/ PatchAnswer
          /\ UNCHANGED <<thermalVars, en2Vars, alarmVars, sourceVars, backoffVars, codecVars, backplaneVars, schedulerVars, channelVars, cancelVars, difficultyVars, filterVars, steadyVars, resyncVars, busVars>>
    \/ OtherPatchSend
          /\ UNCHANGED <<thermalVars, en2Vars, alarmVars, sourceVars, backoffVars, codecVars, backplaneVars, schedulerVars, channelVars, cancelVars, difficultyVars, filterVars, steadyVars, resyncVars, busVars>>
    \/ SchedulerRecvCommand
          /\ UNCHANGED <<thermalVars, en2Vars, alarmVars, sourceVars, backoffVars, codecVars, backplaneVars, schedulerVars, channelVars, cancelVars, difficultyVars, filterVars, steadyVars, resyncVars, busVars>>
    \/ SchedulerReply
          /\ UNCHANGED <<thermalVars, en2Vars, alarmVars, sourceVars, backoffVars, codecVars, backplaneVars, schedulerVars, channelVars, cancelVars, difficultyVars, filterVars, steadyVars, resyncVars, busVars>>
    \/ SchedulerGone
          /\ UNCHANGED <<thermalVars, en2Vars, alarmVars, sourceVars, backoffVars, codecVars, backplaneVars, schedulerVars, channelVars, cancelVars, difficultyVars, filterVars, steadyVars, resyncVars, busVars>>

SpecApi == InitSpecApi /\ [][NextSpecApi]_vars

\* Components share the control channel of a device that answers, answers
\* late, loses requests or goes away.
InitSpecChannel ==
    InitChannel /\ ThermalIdle /\ En2Idle /\ AlarmIdle /\ SourceIdle /\ BackoffIdle
        /\ CodecIdle /\ BackplaneIdle /\ InitScheduler /\ InitApi /\ CancelIdle /\ DifficultyIdle /\ FilterIdle /\ SteadyIdle /\ ResyncIdle /\ BusIdle

NextSpecChannel ==
    \/ SendPacket
          /\ UNCHANGED <<thermalVars, en2Vars, alarmVars, sourceVars, backoffVars, codecVars, backplaneVars, schedulerVars, apiVars, cancelVars, difficultyVars, filterVars, steadyVars, resyncVars, busVars>>
    \/ SendPacketLocked
          /\ UNCHANGED <<thermalVars, en2Vars, alarmVars, sourceVars, backoffVars, codecVars, backplaneVars, schedulerVars, apiVars, cancelVars, difficultyVars, filterVars, steadyVars, resyncVars, busVars>>
    \/ SendPacketWait
          /\ UNCHANGED <<thermalVars, en2Vars, alarmVars, sourceVars, backoffVars, codecVars, backplaneVars, schedulerVars, apiVars, cancelVars, difficultyVars, filterVars, steadyVars, resyncVars, busVars>>
    \/ SendPacketRead
          /\ UNCHANGED <<thermalVars, en2Vars, alarmVars, sourceVars, backoffVars, codecVars, backplaneVars, schedulerVars, apiVars, cancelVars, difficultyVars, filterVars, steadyVars, resyncVars, busVars>>
    \/ SendPacketEof
          /\ UNCHANGED <<thermalVars, en2Vars, alarmVars, sourceVars, backoffVars, codecVars, backplaneVars, schedulerVars, apiVars, cancelVars, difficultyVars, filterVars, steadyVars, resyncVars, busVars>>
    \/ SendPacketTimeout
          /\ UNCHANGED <<thermalVars, en2Vars, alarmVars, sourceVars, backoffVars, codecVars, backplaneVars, schedulerVars, apiVars, cancelVars, difficultyVars, filterVars, steadyVars, resyncVars, busVars>>
    \/ DeviceResponds
          /\ UNCHANGED <<thermalVars, en2Vars, alarmVars, sourceVars, backoffVars, codecVars, backplaneVars, schedulerVars, apiVars, cancelVars, difficultyVars, filterVars, steadyVars, resyncVars, busVars>>
    \/ DeviceLosesRequest
          /\ UNCHANGED <<thermalVars, en2Vars, alarmVars, sourceVars, backoffVars, codecVars, backplaneVars, schedulerVars, apiVars, cancelVars, difficultyVars, filterVars, steadyVars, resyncVars, busVars>>
    \/ SerialCloses
          /\ UNCHANGED <<thermalVars, en2Vars, alarmVars, sourceVars, backoffVars, codecVars, backplaneVars, schedulerVars, apiVars, cancelVars, difficultyVars, filterVars, steadyVars, resyncVars, busVars>>

SpecChannel == InitSpecChannel /\ [][NextSpecChannel]_vars

\* The thermal controller or the Stratum source, cancelled at any moment,
\* with peers that take from the channels when they please.
InitSpecCancel ==
    InitCancel /\ ThermalIdle /\ En2Idle /\ AlarmIdle /\ SourceIdle /\ BackoffIdle
        /\ CodecIdle /\ BackplaneIdle /\ InitScheduler /\ InitApi /\ InitChannel /\ DifficultyIdle /\ FilterIdle /\ SteadyIdle /\ ResyncIdle /\ BusIdle

NextSpecCancel ==
    \/ ThermalCancel /\ UNCHANGED <<sourceVars, en2Vars, alarmVars, backoffVars, codecVars, backplaneVars, schedulerVars, apiVars, channelVars, difficultyVars, filterVars, steadyVars, resyncVars, busVars>>
    \/ ThermalRunCancelled /\ UNCHANGED <<sourceVars, en2Vars, alarmVars, backoffVars, codecVars, backplaneVars, schedulerVars, apiVars, channelVars, difficultyVars, filterVars, steadyVars, resyncVars, busVars>>
    \/ ThermalRunTick /\ UNCHANGED <<sourceVars, en2Vars, alarmVars, backoffVars, codecVars, backplaneVars, schedulerVars, apiVars, channelVars, difficultyVars, filterVars, steadyVars, resyncVars, busVars>>
    \/ ThermalRunFinishSend /\ UNCHANGED <<sourceVars, en2Vars, alarmVars, backoffVars, codecVars, backplaneVars, schedulerVars, apiVars, channelVars, difficultyVars, filterVars, steadyVars, resyncVars, busVars>>
    \/ ThermalRunAdvance /\ UNCHANGED <<sourceVars, en2Vars, alarmVars, backoffVars, codecVars, backplaneVars, schedulerVars, apiVars, channelVars, difficultyVars, filterVars, steadyVars, resyncVars, busVars>>
    \/ ThermalPeerRecv /\ UNCHANGED <<sourceVars, en2Vars, alarmVars, backoffVars, codecVars, backplaneVars, schedulerVars, apiVars, channelVars, difficultyVars, filterVars, steadyVars, resyncVars, busVars>>
    \/ (run_followed = "source" /\ Cancel) /\ UNCHANGED <<cancelVars, thermalVars, en2Vars, alarmVars, backoffVars, codecVars, backplaneVars, schedulerVars, apiVars, channelVars, difficultyVars, filterVars, steadyVars, resyncVars, busVars>>
    \/ (run_followed = "source" /\ WaitUpdateHashRate(MaxHashRate)) /\ UNCHANGED <<cancelVars, thermalVars, en2Vars, alarmVars, backoffVars, codecVars, backplaneVars, schedulerVars, apiVars, channelVars, difficultyVars, filterVars, steadyVars, resyncVars, busVars>>
    \/ (run_followed = "source" /\ WaitShutdown) /\ UNCHANGED <<cancelVars, thermalVars, en2Vars, alarmVars, backoffVars, codecVars, backplaneVars, schedulerVars, apiVars, channelVars, difficultyVars, filterVars, steadyVars, resyncVars, busVars>>
    \/ (run_followed = "source" /\ \E event \in DisconnectedEvents : SourceClientEvent(event)) /\ UNCHANGED <<cancelVars, thermalVars, en2Vars, alarmVars, backoffVars, codecVars, backplaneVars, schedulerVars, apiVars, channelVars, difficultyVars, filterVars, steadyVars, resyncVars, busVars>>
    \/ (\E event \in DisconnectedEvents : SourceClientEventSuspends(event)) /\ UNCHANGED <<thermalVars, en2Vars, alarmVars, backoffVars, codecVars, backplaneVars, schedulerVars, apiVars, channelVars, difficultyVars, filterVars, steadyVars, resyncVars, busVars>>
    \/ SourceSendResumes /\ UNCHANGED <<thermalVars, en2Vars, alarmVars, backoffVars, codecVars, backplaneVars, schedulerVars, apiVars, channelVars, difficultyVars, filterVars, steadyVars, resyncVars, busVars>>
    \/ (run_followed = "source" /\ RunShutdown) /\ UNCHANGED <<cancelVars, thermalVars, en2Vars, alarmVars, backoffVars, codecVars, backplaneVars, schedulerVars, apiVars, channelVars, difficultyVars, filterVars, steadyVars, resyncVars, busVars>>
    \/ (run_followed = "source" /\ RunClientClosed) /\ UNCHANGED <<cancelVars, thermalVars, en2Vars, alarmVars, backoffVars, codecVars, backplaneVars, schedulerVars, apiVars, channelVars, difficultyVars, filterVars, steadyVars, resyncVars, busVars>>
    \/ (run_followed = "source" /\ Join) /\ UNCHANGED <<cancelVars, thermalVars, en2Vars, alarmVars, backoffVars, codecVars, backplaneVars, schedulerVars, apiVars, channelVars, difficultyVars, filterVars, steadyVars, resyncVars, busVars>>
    \/ (run_followed = "source" /\ ClientExit) /\ UNCHANGED <<cancelVars, thermalVars, en2Vars, alarmVars, backoffVars, codecVars, backplaneVars, schedulerVars, apiVars, channelVars, difficultyVars, filterVars, steadyVars, resyncVars, busVars>>
    \/ ClientCancelled /\ UNCHANGED <<thermalVars, en2Vars, alarmVars, backoffVars, codecVars, backplaneVars, schedulerVars, apiVars, channelVars, difficultyVars, filterVars, steadyVars, resyncVars, busVars>>
    \/ (run_followed = "source" /\ SchedulerRecv) /\ UNCHANGED <<cancelVars, thermalVars, en2Vars, alarmVars, backoffVars, codecVars, backplaneVars, schedulerVars, apiVars, channelVars, difficultyVars, filterVars, steadyVars, resyncVars, busVars>>

\* Fair scheduling: a task that can take a step takes it, and a select takes
\* the branch of the cancellation when that branch is ready again and again.
\* Nothing is asked of the peers that take from the channels.
FairSpecCancel ==
    /\ SF_vars(ThermalRunCancelled /\ UNCHANGED <<sourceVars, en2Vars, alarmVars, backoffVars, codecVars, backplaneVars, schedulerVars, apiVars, channelVars, difficultyVars, filterVars, steadyVars, resyncVars, busVars>>)
    /\ WF_vars(ThermalRunFinishSend /\ UNCHANGED <<sourceVars, en2Vars, alarmVars, backoffVars, codecVars, backplaneVars, schedulerVars, apiVars, channelVars, difficultyVars, filterVars, steadyVars, resyncVars, busVars>>)
    /\ SF_vars((run_followed = "source" /\ WaitShutdown) /\ UNCHANGED <<cancelVars, thermalVars, en2Vars, alarmVars, backoffVars, codecVars, backplaneVars, schedulerVars, apiVars, channelVars, difficultyVars, filterVars, steadyVars, resyncVars, busVars>>)
    /\ SF_vars((run_followed = "source" /\ RunShutdown) /\ UNCHANGED <<cancelVars, thermalVars, en2Vars, alarmVars, backoffVars, codecVars, backplaneVars, schedulerVars, apiVars, channelVars, difficultyVars, filterVars, steadyVars, resyncVars, busVars>>)
    /\ WF_vars((run_followed = "source" /\ RunClientClosed) /\ UNCHANGED <<cancelVars, thermalVars, en2Vars, alarmVars, backoffVars, codecVars, backplaneVars, schedulerVars, apiVars, channelVars, difficultyVars, filterVars, steadyVars, resyncVars, busVars>>)
    /\ WF_vars((run_followed = "source" /\ Join) /\ UNCHANGED <<cancelVars, thermalVars, en2Vars, alarmVars, backoffVars, codecVars, backplaneVars, schedulerVars, apiVars, channelVars, difficultyVars, filterVars, steadyVars, resyncVars, busVars>>)
    /\ WF_vars(SourceSendResumes /\ UNCHANGED <<thermalVars, en2Vars, alarmVars, backoffVars, codecVars, backplaneVars, schedulerVars, apiVars, channelVars, difficultyVars, filterVars, steadyVars, resyncVars, busVars>>)
    /\ WF_vars(ClientCancelled /\ UNCHANGED <<thermalVars, en2Vars, alarmVars, backoffVars, codecVars, backplaneVars, schedulerVars, apiVars, channelVars, difficultyVars, filterVars, steadyVars, resyncVars, busVars>>)

SpecCancel == InitSpecCancel /\ [][NextSpecCancel]_vars /\ FairSpecCancel

\* Difficulties constructed, taken to their target and back, and compared.
InitSpecDifficulty ==
    InitDifficulty /\ ThermalIdle /\ En2Idle /\ AlarmIdle /\ SourceIdle /\ BackoffIdle
        /\ CodecIdle /\ BackplaneIdle /\ InitScheduler /\ InitApi /\ InitChannel
        /\ CancelIdle /\ FilterIdle /\ SteadyIdle /\ ResyncIdle /\ BusIdle

NextSpecDifficulty ==
    \/ DifficultyFromU64 /\ UNCHANGED <<thermalVars, en2Vars, alarmVars, sourceVars, backoffVars, codecVars, backplaneVars, schedulerVars, apiVars, channelVars, cancelVars, filterVars, steadyVars, resyncVars, busVars>>
    \/ DifficultyRoundTrip /\ UNCHANGED <<thermalVars, en2Vars, alarmVars, sourceVars, backoffVars, codecVars, backplaneVars, schedulerVars, apiVars, channelVars, cancelVars, filterVars, steadyVars, resyncVars, busVars>>
    \/ DifficultyCompare /\ UNCHANGED <<thermalVars, en2Vars, alarmVars, sourceVars, backoffVars, codecVars, backplaneVars, schedulerVars, apiVars, channelVars, cancelVars, filterVars, steadyVars, resyncVars, busVars>>

SpecDifficulty == InitSpecDifficulty /\ [][NextSpecDifficulty]_vars

\* A temperature filter fed by a sensor that may come to report one value
\* for good.
InitSpecFilter ==
    InitFilter /\ ThermalIdle /\ En2Idle /\ AlarmIdle /\ SourceIdle /\ BackoffIdle
        /\ CodecIdle /\ BackplaneIdle /\ InitScheduler /\ InitApi /\ InitChannel
        /\ CancelIdle /\ DifficultyIdle /\ SteadyIdle /\ ResyncIdle /\ BusIdle

NextSpecFilter ==
    \/ FilterConsider /\ UNCHANGED <<thermalVars, en2Vars, alarmVars, sourceVars, backoffVars, codecVars, backplaneVars, schedulerVars, apiVars, channelVars, cancelVars, difficultyVars, steadyVars, resyncVars, busVars>>
    \/ SensorHolds /\ UNCHANGED <<thermalVars, en2Vars, alarmVars, sourceVars, backoffVars, codecVars, backplaneVars, schedulerVars, apiVars, channelVars, cancelVars, difficultyVars, steadyVars, resyncVars, busVars>>

SpecFilter == InitSpecFilter /\ [][NextSpecFilter]_vars

\* The monitoring loop keeps calling consider.
SpecFilterFair ==
    SpecFilter /\ WF_vars(FilterConsider /\ UNCHANGED <<thermalVars, en2Vars, alarmVars, sourceVars, backoffVars, codecVars, backplaneVars, schedulerVars, apiVars, channelVars, cancelVars, difficultyVars, steadyVars, resyncVars, busVars>>)

\* The thermal controller running for good, with a consumer of the frequency
\* channel that takes commands when it pleases.
InitSpecStall ==
    RunsStart("thermal") /\ ThermalIdle /\ En2Idle /\ AlarmIdle /\ SourceIdle
        /\ BackoffIdle /\ CodecIdle /\ BackplaneIdle /\ InitScheduler /\ InitApi
        /\ InitChannel /\ DifficultyIdle /\ FilterIdle /\ SteadyIdle /\ ResyncIdle /\ BusIdle

NextSpecStall ==
    \/ ThermalRunTick /\ UNCHANGED <<sourceVars, en2Vars, alarmVars, backoffVars, codecVars, backplaneVars, schedulerVars, apiVars, channelVars, difficultyVars, filterVars, steadyVars, resyncVars, busVars>>
    \/ ThermalRunFinishSend /\ UNCHANGED <<sourceVars, en2Vars, alarmVars, backoffVars, codecVars, backplaneVars, schedulerVars, apiVars, channelVars, difficultyVars, filterVars, steadyVars, resyncVars, busVars>>
    \/ ThermalRunAdvance /\ UNCHANGED <<sourceVars, en2Vars, alarmVars, backoffVars, codecVars, backplaneVars, schedulerVars, apiVars, channelVars, difficultyVars, filterVars, steadyVars, resyncVars, busVars>>
    \/ ThermalPeerRecv /\ UNCHANGED <<sourceVars, en2Vars, alarmVars, backoffVars, codecVars, backplaneVars, schedulerVars, apiVars, channelVars, difficultyVars, filterVars, steadyVars, resyncVars, busVars>>

\* Fair scheduling: the interval keeps ticking and a send that can complete
\* does. Nothing is asked of the consumer.
FairSpecStall ==
    /\ WF_vars(ThermalRunTick /\ UNCHANGED <<sourceVars, en2Vars, alarmVars, backoffVars, codecVars, backplaneVars, schedulerVars, apiVars, channelVars, difficultyVars, filterVars, steadyVars, resyncVars, busVars>>)
    /\ WF_vars(ThermalRunFinishSend /\ UNCHANGED <<sourceVars, en2Vars, alarmVars, backoffVars, codecVars, backplaneVars, schedulerVars, apiVars, channelVars, difficultyVars, filterVars, steadyVars, resyncVars, busVars>>)

SpecStall == InitSpecStall /\ [][NextSpecStall]_vars /\ FairSpecStall

\* The thermal controller with the history of its state's path.
InitSpecSteady ==
    InitThermal /\ SteadyStart /\ En2Idle /\ AlarmIdle /\ SourceIdle /\ BackoffIdle
        /\ CodecIdle /\ BackplaneIdle /\ InitScheduler /\ InitApi /\ InitChannel
        /\ CancelIdle /\ DifficultyIdle /\ FilterIdle /\ ResyncIdle /\ BusIdle

NextSpecSteady ==
    \/ SteadyTick /\ UNCHANGED <<en2Vars, alarmVars, sourceVars, backoffVars, codecVars, backplaneVars, schedulerVars, apiVars, channelVars, cancelVars, difficultyVars, filterVars, resyncVars, busVars>>
    \/ SteadyFinishSend /\ UNCHANGED <<en2Vars, alarmVars, sourceVars, backoffVars, codecVars, backplaneVars, schedulerVars, apiVars, channelVars, cancelVars, difficultyVars, filterVars, resyncVars, busVars>>
    \/ SteadyAdvance /\ UNCHANGED <<en2Vars, alarmVars, sourceVars, backoffVars, codecVars, backplaneVars, schedulerVars, apiVars, channelVars, cancelVars, difficultyVars, filterVars, resyncVars, busVars>>
    \/ SteadyFrequencyRecv /\ UNCHANGED <<en2Vars, alarmVars, sourceVars, backoffVars, codecVars, backplaneVars, schedulerVars, apiVars, channelVars, cancelVars, difficultyVars, filterVars, resyncVars, busVars>>

SpecSteady == InitSpecSteady /\ [][NextSpecSteady]_vars

\* The control channel of a device that loses no request and stays plugged
\* in; the callers go on calling, every call runs to its return, and the
\* device answers every request.
InitSpecResync ==
    InitChannel /\ ResyncStart /\ ThermalIdle /\ En2Idle /\ AlarmIdle /\ SourceIdle
        /\ BackoffIdle /\ CodecIdle /\ BackplaneIdle /\ InitScheduler /\ InitApi
        /\ CancelIdle /\ DifficultyIdle /\ FilterIdle /\ SteadyIdle /\ BusIdle

NextSpecResync ==
    \/ ResyncSendPacket /\ UNCHANGED <<thermalVars, en2Vars, alarmVars, sourceVars, backoffVars, codecVars, backplaneVars, schedulerVars, apiVars, cancelVars, difficultyVars, filterVars, steadyVars, busVars>>
    \/ ResyncSendPacketLocked /\ UNCHANGED <<thermalVars, en2Vars, alarmVars, sourceVars, backoffVars, codecVars, backplaneVars, schedulerVars, apiVars, cancelVars, difficultyVars, filterVars, steadyVars, busVars>>
    \/ ResyncSendPacketWait /\ UNCHANGED <<thermalVars, en2Vars, alarmVars, sourceVars, backoffVars, codecVars, backplaneVars, schedulerVars, apiVars, cancelVars, difficultyVars, filterVars, steadyVars, busVars>>
    \/ ResyncSendPacketRead /\ UNCHANGED <<thermalVars, en2Vars, alarmVars, sourceVars, backoffVars, codecVars, backplaneVars, schedulerVars, apiVars, cancelVars, difficultyVars, filterVars, steadyVars, busVars>>
    \/ ResyncSendPacketTimeout /\ UNCHANGED <<thermalVars, en2Vars, alarmVars, sourceVars, backoffVars, codecVars, backplaneVars, schedulerVars, apiVars, cancelVars, difficultyVars, filterVars, steadyVars, busVars>>
    \/ ResyncDeviceResponds /\ UNCHANGED <<thermalVars, en2Vars, alarmVars, sourceVars, backoffVars, codecVars, backplaneVars, schedulerVars, apiVars, cancelVars, difficultyVars, filterVars, steadyVars, busVars>>

FairSpecResync ==
    /\ WF_vars(ResyncSendPacket /\ UNCHANGED <<thermalVars, en2Vars, alarmVars, sourceVars, backoffVars, codecVars, backplaneVars, schedulerVars, apiVars, cancelVars, difficultyVars, filterVars, steadyVars, busVars>>)
    /\ WF_vars(ResyncSendPacketLocked /\ UNCHANGED <<thermalVars, en2Vars, alarmVars, sourceVars, backoffVars, codecVars, backplaneVars, schedulerVars, apiVars, cancelVars, difficultyVars, filterVars, steadyVars, busVars>>)
    /\ WF_vars(ResyncSendPacketRead /\ UNCHANGED <<thermalVars, en2Vars, alarmVars, sourceVars, backoffVars, codecVars, backplaneVars, schedulerVars, apiVars, cancelVars, difficultyVars, filterVars, steadyVars, busVars>>)
    /\ WF_vars(ResyncSendPacketTimeout /\ UNCHANGED <<thermalVars, en2Vars, alarmVars, sourceVars, backoffVars, codecVars, backplaneVars, schedulerVars, apiVars, cancelVars, difficultyVars, filterVars, steadyVars, busVars>>)
    /\ WF_vars(ResyncDeviceResponds /\ UNCHANGED <<thermalVars, en2Vars, alarmVars, sourceVars, backoffVars, codecVars, backplaneVars, schedulerVars, apiVars, cancelVars, difficultyVars, filterVars, steadyVars, busVars>>)

SpecResync == InitSpecResync /\ [][NextSpecResync]_vars /\ FairSpecResync

\* The Stratum source and its coordinator, each sending to the other on a
\* bounded channel.
InitSpecBus ==
    InitSource /\ RunsStart("source") /\ BusStart /\ ThermalIdle /\ En2Idle /\ AlarmIdle
        /\ BackoffIdle /\ CodecIdle /\ BackplaneIdle /\ InitScheduler /\ InitApi
        /\ InitChannel /\ DifficultyIdle /\ FilterIdle /\ SteadyIdle /\ ResyncIdle

NextSpecBus ==
    \/ CoordinatorUpdateHashRate /\ UNCHANGED <<thermalVars, en2Vars, alarmVars, backoffVars, codecVars, backplaneVars, schedulerVars, apiVars, channelVars, difficultyVars, filterVars, steadyVars, resyncVars>>
    \/ CoordinatorSubmitShare /\ UNCHANGED <<thermalVars, en2Vars, alarmVars, backoffVars, codecVars, backplaneVars, schedulerVars, apiVars, channelVars, difficultyVars, filterVars, steadyVars, resyncVars>>
    \/ CoordinatorSubmitResumes /\ UNCHANGED <<thermalVars, en2Vars, alarmVars, backoffVars, codecVars, backplaneVars, schedulerVars, apiVars, channelVars, difficultyVars, filterVars, steadyVars, resyncVars>>
    \/ CoordinatorRecvEvent /\ UNCHANGED <<thermalVars, en2Vars, alarmVars, backoffVars, codecVars, backplaneVars, schedulerVars, apiVars, channelVars, difficultyVars, filterVars, steadyVars, resyncVars>>
    \/ SourceRecvCommand /\ UNCHANGED <<thermalVars, en2Vars, alarmVars, backoffVars, codecVars, backplaneVars, schedulerVars, apiVars, channelVars, difficultyVars, filterVars, steadyVars, resyncVars>>
    \/ BusClientEvent /\ UNCHANGED <<thermalVars, en2Vars, alarmVars, backoffVars, codecVars, backplaneVars, schedulerVars, apiVars, channelVars, difficultyVars, filterVars, steadyVars, resyncVars>>
    \/ BusClientEventSuspends /\ UNCHANGED <<thermalVars, en2Vars, alarmVars, backoffVars, codecVars, backplaneVars, schedulerVars, apiVars, channelVars, difficultyVars, filterVars, steadyVars, resyncVars>>
    \/ BusSendResumes /\ UNCHANGED <<thermalVars, en2Vars, alarmVars, backoffVars, codecVars, backplaneVars, schedulerVars, apiVars, channelVars, difficultyVars, filterVars, steadyVars, resyncVars>>
    \/ BusClientRecv /\ UNCHANGED <<thermalVars, en2Vars, alarmVars, backoffVars, codecVars, backplaneVars, schedulerVars, apiVars, channelVars, difficultyVars, filterVars, steadyVars, resyncVars>>

SpecBus == InitSpecBus /\ [][NextSpecBus]_vars

(***************************************************************************)
(* Thermal controller: properties.                                         *)
(***************************************************************************)

\* A step is a tick iff it changes tick.seq.
TickStep == tick'.seq # tick.seq

\* A tick that found a sample in the watch channel.
SampleTickStep == TickStep /\ temperature_rx' # None

\* The step hands exactly `cmd` to frequency_tx.send: it is queued, or the
\* channel is full and the controller is suspended in the send.
SendsStep(cmd) ==
    \/ /\ frequency_ch' = Append(frequency_ch, cmd)
       /\ thermal_pc' = "idle"
       /\ pending_cmd' = None
    \/ /\ Len(frequency_ch) = FreqCapacity
       /\ frequency_ch' = frequency_ch
       /\ thermal_pc' = "send"
       /\ pending_cmd' = Some(cmd)

\* The step hands nothing to frequency_tx.send.
SendsNothingStep ==
    /\ frequency_ch' = frequency_ch
    /\ thermal_pc' = "idle"
    /\ pending_cmd' = None

\* The threshold whose crossing escalates into `state`.
EscalationThreshold(state, cfg) ==
    CASE state = "COOLING" -> NORMAL_THRESHOLD_C
      [] state = "THROTTLING" -> cfg.target_temperature_c
      [] state = "CRITICAL" -> cfg.max_temperature_c
      [] state = "NORMAL" -> 0

\* C1: a tick's new state follows the six-row table from the previous state
\* and the sample t, and is the previous state otherwise; a de-escalation out
\* of a state never happens on a sample above (threshold - H), the threshold
\* being the one whose crossing escalates into that state.
C1_TransitionTable ==
    tick.kind = "sample" =>
        LET t == temperature_rx[1]
            prev == tick.previous_state
            cur == current_state
            H == 2 * TempScale
            target == config.target_temperature_c
            max == config.max_temperature_c
        IN /\ prev = "NORMAL" =>
                /\ cur \in {"NORMAL", "COOLING"}
                /\ cur = "COOLING" <=> t > 55 * TempScale
           /\ prev = "COOLING" =>
                /\ cur \in {"NORMAL", "COOLING", "THROTTLING"}
                /\ cur = "NORMAL" <=> t <= 55 * TempScale - H
                /\ cur = "THROTTLING" <=> (t > target /\ t > 55 * TempScale - H)
           /\ prev = "THROTTLING" =>
                /\ cur \in {"COOLING", "THROTTLING", "CRITICAL"}
                /\ cur = "COOLING" <=> t <= target - H
                /\ cur = "CRITICAL" <=> (t > max /\ t > target - H)
           /\ prev = "CRITICAL" =>
                /\ cur \in {"THROTTLING", "CRITICAL"}
                /\ cur = "THROTTLING" <=> t <= max - H
           /\ state_severity(cur) < state_severity(prev) =>
                t <= EscalationThreshold(prev, config) - H

\* C1 witness: THROTTLING de-escalates to COOLING on a sample exactly H below
\* the target.
C1_Witness ==
    /\ tick.kind = "sample"
    /\ tick.previous_state = "THROTTLING"
    /\ current_state = "COOLING"
    /\ temperature_rx = Some(config.target_temperature_c - 2 * TempScale)

\* C2: a tick that changes the state hands exactly one FrequencyCommand to the
\* channel, BumpDown if the severity rose and BumpUp otherwise; a tick that
\* leaves the state unchanged while the sustained-overshoot rule does not
\* apply hands none.
C2_StateChangeCommand ==
    [][SampleTickStep =>
         LET prev == current_state
             cur == current_state'
             t == temperature_rx'[1]
             overshoot ==
                 /\ cur \in {"THROTTLING", "CRITICAL"}
                 /\ t >= config.target_temperature_c + 5 * TempScale
                 /\ \/ last_frequency_adjust = None
                    \/ now - last_frequency_adjust[1] >= 20
         IN /\ cur # prev =>
                 SendsStep(IF state_severity(cur) > state_severity(prev)
                           THEN "BumpDown" ELSE "BumpUp")
            /\ (cur = prev /\ ~overshoot) => SendsNothingStep
      ]_vars

\* C2 witness: a tick went from THROTTLING down to COOLING and sent BumpUp.
C2_Witness ==
    /\ tick.kind = "sample"
    /\ tick.previous_state = "THROTTLING"
    /\ current_state = "COOLING"
    /\ tick.freq_cmd = Some("BumpUp")

\* C3: a tick that leaves the state unchanged hands BumpDown to the channel
\* iff the state is THROTTLING or CRITICAL, t >= target + 5 and at least 20 s
\* have passed since the tick of the last frequency command of either kind
\* (and hands nothing otherwise); once a command is sent the cooldown runs
\* from the tick that sent it.
C3_SustainedOvershoot ==
    [][/\ SampleTickStep /\ current_state' = current_state =>
            LET t == temperature_rx'[1]
                elapsed == IF tick.last_cmd_at = None
                           THEN None
                           ELSE Some(now - tick.last_cmd_at[1])
                due == /\ current_state \in {"THROTTLING", "CRITICAL"}
                       /\ t >= config.target_temperature_c + 5 * TempScale
                       /\ (elapsed = None \/ elapsed[1] >= 20)
            IN IF due THEN SendsStep("BumpDown") ELSE SendsNothingStep
       /\ thermal_pc' = "idle" => last_frequency_adjust' = tick'.last_cmd_at
      ]_vars

\* C3 witness: an overshoot BumpDown was sent at 20 s, by a tick that left the
\* state THROTTLING.
C3_Witness ==
    /\ tick.kind = "sample"
    /\ tick.previous_state = "THROTTLING"
    /\ current_state = "THROTTLING"
    /\ tick.freq_cmd = Some("BumpDown")
    /\ last_frequency_adjust = Some(20)
    /\ thermal_pc = "idle"

\* C4: a tick that ends in NORMAL or CRITICAL does not accumulate into
\* integral_sum; a tick that changes the state into NORMAL leaves it 0; after
\* a tick that ends in COOLING or THROTTLING it lies within
\* [integral_min, integral_max].
C4_IntegralDiscipline ==
    [][SampleTickStep =>
         LET prev == current_state
             cur == current_state'
         IN /\ cur = "CRITICAL" => fan_pid'.integral_sum = fan_pid.integral_sum
            /\ (cur = "NORMAL" /\ prev = "NORMAL") =>
                   fan_pid'.integral_sum = fan_pid.integral_sum
            /\ (cur = "NORMAL" /\ prev # "NORMAL") => fan_pid'.integral_sum = 0
            /\ cur \in {"COOLING", "THROTTLING"} =>
                   /\ fan_pid.integral_min <= fan_pid'.integral_sum
                   /\ fan_pid'.integral_sum <= fan_pid.integral_max
      ]_vars

\* C4 witness: a tick went from COOLING to NORMAL and left the integral at 0,
\* in a controller with an integral term.
C4_Witness ==
    /\ tick.kind = "sample"
    /\ tick.previous_state = "COOLING"
    /\ current_state = "NORMAL"
    /\ fan_pid.integral_gain # 0
    /\ fan_pid.integral_sum = 0

\* The integer part of x (in 1/TempScale units) limited to [0, 100].
C5_Limited(x) ==
    (IF x < 0 THEN 0 ELSE IF x > 100 * TempScale THEN 100 * TempScale ELSE x) \div TempScale

\* The base speeds of the claim.
C5_Base(state) ==
    CASE state = "NORMAL" -> 30
      [] state = "COOLING" -> 50
      [] state = "THROTTLING" -> 80
      [] state = "CRITICAL" -> 100

\* C5: a tick with a sample publishes exactly one FanSpeedCommand; its
\* speed_percent is the integer part of base_speed(new state) + Kp * error +
\* Ki * integral_sum limited to [0, 100], with error = t - target and
\* integral_sum the value the PI update leaves (before the reset on entering
\* NORMAL); it is never below 0 or above 100.
C5_FanSpeed ==
    [][SampleTickStep =>
         LET cur == current_state'
             error == temperature_rx'[1] - config.target_temperature_c
             integral == IF cur \in {"NORMAL", "CRITICAL"}
                         THEN fan_pid.integral_sum
                         ELSE fan_pid'.integral_sum
         IN /\ tick'.fan_published = 1
            /\ fan_speed_rx' = C5_Limited(C5_Base(cur) * TempScale
                                          + fan_pid.proportional_gain * error
                                          + fan_pid.integral_gain * integral)
            /\ fan_speed_rx' >= 0
            /\ fan_speed_rx' <= 100
      ]_vars

\* C5 witness: a tick into THROTTLING published a speed strictly between the
\* limits that a fractional sample produced.
C5_Witness ==
    /\ tick.kind = "sample"
    /\ current_state = "THROTTLING"
    /\ temperature_rx[1] % TempScale # 0
    /\ fan_speed_rx > 0
    /\ fan_speed_rx < 100

\* C6: a tick that finds no sample sends no FanSpeedCommand and no
\* FrequencyCommand and leaves the thermal state, the PI controller,
\* last_tick_time and last_frequency_adjust unchanged.
C6_NoSampleNoEffect ==
    [][(TickStep /\ temperature_rx' = None) =>
         /\ tick'.fan_published = 0
         /\ tick'.freq_cmd = None
         /\ SendsNothingStep
         /\ UNCHANGED <<current_state, fan_pid, last_tick_time, last_frequency_adjust,
                        fan_speed_rx>>
      ]_vars

\* C6 witness: a tick found no sample.
C6_Witness == tick.kind = "nosample" /\ temperature_rx = None

\* The state sequence scenario S5 claims, and the one the transitions give.
S5ClaimedStates ==
    <<"NORMAL", "COOLING", "COOLING", "THROTTLING", "CRITICAL", "THROTTLING", "COOLING",
      "NORMAL">>

S5States ==
    <<"NORMAL", "COOLING", "COOLING", "THROTTLING", "CRITICAL", "THROTTLING", "COOLING",
      "COOLING">>

\* The state before the k-th sample of a scenario that starts in NORMAL.
S5Before(states, k) == IF k = 1 THEN "NORMAL" ELSE states[k - 1]

\* The severity increases and decreases among the first i transitions.
S5Increases(states, i) ==
    Cardinality({ k \in 1..i :
                    state_severity(states[k]) > state_severity(S5Before(states, k)) })

S5Decreases(states, i) ==
    Cardinality({ k \in 1..i :
                    state_severity(states[k]) < state_severity(S5Before(states, k)) })

\* After the first s5.i samples of S5 the controller is in states[s5.i] and has
\* sent one BumpDown per increase and one BumpUp per decrease of `states`.
S5Follows(states) ==
    s5.i >= 1 =>
        /\ current_state = states[s5.i]
        /\ s5.downs = S5Increases(states, s5.i)
        /\ s5.ups = S5Decreases(states, s5.i)

\* C7 as stated: S5 ends in NORMAL (three BumpDown, three BumpUp).
C7_Original == S5Follows(S5ClaimedStates)

\* C7 amended: the last sample, 54, is above 55 - 2, so S5 ends in COOLING
\* (three BumpDown, two BumpUp).
C7_Scenario == S5Follows(S5States)

\* C7 witness: all eight samples of S5 were fed.
C7_Witness == s5.i = Len(S5Samples)

(***************************************************************************)
(* Properties of the extranonce2 template.                                 *)
(***************************************************************************)

\* The number of values of range r, less one (max - min, which fits a u64).
Span(r) == U64WrappingSub(r.max, r.min).v

\* Range r holds at least n values, n >= 1.
HoldsAtLeast(r, n) == U64Le(U64Of(n - 1), Span(r))

\* The ranges are in order, each holds one value or more, they do not overlap
\* and their union is [r.min, r.max].
Partitions(ranges, r) ==
    /\ ranges[1].min = r.min
    /\ ranges[Len(ranges)].max = r.max
    /\ \A k \in 1..Len(ranges) : U64Le(ranges[k].min, ranges[k].max)
    /\ \A k \in 1..(Len(ranges) - 1) :
          /\ U64Lt(ranges[k].max, ranges[k + 1].min)
          /\ ranges[k + 1].min = U64WrappingAdd(ranges[k].max, U64_ONE).v

\* The sizes differ by at most 1 and the larger ranges come first.
Balanced(ranges) ==
    /\ \A j \in 1..Len(ranges) : \A k \in j..Len(ranges) :
          U64Le(Span(ranges[k]), Span(ranges[j]))
    /\ U64Le(U64WrappingSub(Span(ranges[1]), Span(ranges[Len(ranges)])).v, U64_ONE)

\* C8: split(n) never panics; for n >= 1 on a range holding at least n values
\* it returns exactly n non-overlapping ranges whose union is the range and
\* whose sizes differ by at most 1, the larger ones first; for n = 0 or a range
\* holding fewer than n values it returns None.
C8_SplitContract ==
    en2_last.op = "split" =>
        LET r == en2_last.before[1]
            n == en2_last.arg[1]
            out == en2_last.out
        IN /\ out # Panic
           /\ IF n >= 1 /\ HoldsAtLeast(r, n)
              THEN /\ out.tag = "Some"
                   /\ Len(out.v) = n
                   /\ Partitions(out.v, r)
                   /\ Balanced(out.v)
              ELSE out = NoneResult

\* The invariant of a range: min <= current <= max <= 2^(8*size) - 1, 1 <= size <= 8.
RangeInvariant(t) ==
    /\ U64Le(t.min, t.current)
    /\ U64Le(t.current, t.max)
    /\ U64Le(t.max, max_for_size(t.size))
    /\ 1 <= t.size /\ t.size <= MAX_SIZE

\* C9: every range (the template in use and each range a split returned)
\* satisfies min <= current <= max <= 2^(8*size) - 1 with 1 <= size <= 8;
\* next() and increment() at current = max return None and false and leave the
\* range unchanged; reset() sets current to min; current() does not panic.
C9_RangeInvariant ==
    /\ template # None =>
          /\ RangeInvariant(template[1])
          /\ Extranonce2Template_current(template[1]) # Panic
    /\ (en2_last.op = "split" /\ en2_last.out.tag = "Some") =>
          \A k \in 1..Len(en2_last.out.v) : RangeInvariant(en2_last.out.v[k])
    /\ (en2_last.op \in {"next", "increment"}
            /\ en2_last.before[1].current = en2_last.before[1].max) =>
          /\ en2_last.out = IF en2_last.op = "next" THEN NoneResult ELSE OkResult(FALSE)
          /\ template = en2_last.before
    /\ en2_last.op \in {"next", "increment"} =>
          /\ en2_last.out # Panic
          /\ template[1].min = en2_last.before[1].min
          /\ template[1].max = en2_last.before[1].max
          /\ template[1].size = en2_last.before[1].size
    /\ en2_last.op = "reset" =>
          template = Some([en2_last.before[1] EXCEPT !.current = en2_last.before[1].min])
    /\ en2_last.op = "current" =>
          en2_last.out = OkResult([value |-> template[1].current, size |-> template[1].size])

\* A cursor that advanced from min to max is exhausted: increment() returns false.
C9_Witness ==
    /\ en2_last.op = "increment"
    /\ en2_last.out = OkResult(FALSE)
    /\ template # None
    /\ template[1].current = template[1].max
    /\ U64Lt(template[1].min, template[1].current)

(***************************************************************************)
(* Properties of the debounced alarm.                                      *)
(***************************************************************************)

\* C10: check(condition) follows the transition table: Idle/false stays Idle
\* and returns Idle; Idle/true starts timing now and returns Pending;
\* Timing/false goes Idle and returns Idle; Timing/true returns Pending and
\* stays Timing while elapsed < debounce, and returns Triggered and goes Fired
\* once elapsed >= debounce; Fired/true stays Fired and returns Active;
\* Fired/false goes Idle and returns Resolved. reset() goes Idle from any
\* state, and the check(true) after it returns Pending and starts a new window.
C10_TransitionTable ==
    LET before == alarm_last.before.state
        condition == alarm_last.condition
        status == alarm_last.status
    IN /\ alarm.debounce = alarm_last.before.debounce
       /\ status \in AlarmStatus
       /\ alarm_last.op = "check" =>
            /\ (before.tag = "Idle" /\ ~condition) =>
                  alarm.state = StateIdle /\ status = "Idle"
            /\ (before.tag = "Idle" /\ condition) =>
                  alarm.state = StateTiming(alarm_last.at) /\ status = "Pending"
            /\ (before.tag = "Timing" /\ ~condition) =>
                  alarm.state = StateIdle /\ status = "Idle"
            /\ (before.tag = "Timing" /\ condition) =>
                  IF alarm_last.at - before.since < alarm.debounce
                  THEN alarm.state = before /\ status = "Pending"
                  ELSE alarm.state = StateFired /\ status = "Triggered"
            /\ (before.tag = "Fired" /\ condition) =>
                  alarm.state = StateFired /\ status = "Active"
            /\ (before.tag = "Fired" /\ ~condition) =>
                  alarm.state = StateIdle /\ status = "Resolved"
       /\ alarm_last.op = "reset" => alarm.state = StateIdle
       /\ (alarm_last.op = "check" /\ condition /\ alarm_last.prev_op = "reset") =>
            alarm.state = StateTiming(alarm_last.at) /\ status = "Pending"

\* The alarm triggers at the check made exactly `debounce` after timing started.
C10_Witness ==
    /\ alarm_last.op = "check"
    /\ alarm_last.status = "Triggered"
    /\ alarm_last.before.state.tag = "Timing"
    /\ alarm.debounce > 0
    /\ alarm_last.at - alarm_last.before.state.since = alarm.debounce

\* C11: in any trace of check()/reset() calls, between two consecutive visits
\* to the Idle state Triggered is returned at most once and Resolved at most
\* once; Resolved is returned only by the first check(false) after a
\* Triggered or Active result with no reset in between; Triggered is returned
\* only by a check(true) ending an uninterrupted run of check(true) calls (no
\* check(false), no reset() inside) whose first call was at least `debounce`
\* earlier.
C11_AlarmEdges ==
    /\ alarm_trace.triggered <= 1
    /\ alarm_trace.resolved <= 1
    /\ (alarm_last.op = "check" /\ alarm_last.status = "Resolved") =>
          /\ ~alarm_last.condition
          /\ alarm_last.prev_op = "check"
          /\ alarm_trace.prev_status \in {"Triggered", "Active"}
    /\ (alarm_last.op = "check" /\ alarm_last.status = "Triggered") =>
          /\ alarm_last.condition
          /\ alarm_trace.run_start # None
          /\ alarm_last.at - alarm_trace.run_start[1] >= alarm.debounce

\* The alarm triggers at the end of its second run of true readings, the first
\* run having been cut short before the debounce elapsed.
C11_Witness ==
    /\ alarm_last.op = "check"
    /\ alarm_last.status = "Triggered"
    /\ alarm_trace.episodes = 2
    /\ alarm_trace.triggered = 1
    /\ alarm.debounce > 1
    /\ alarm_last.at - alarm_trace.run_start[1] = alarm.debounce

(***************************************************************************)
(* Properties of the Stratum v1 job source.                                *)
(***************************************************************************)

\* C12: run creates and spawns the client only once it has received an
\* UpdateHashRate with a non-zero rate: while it waits there is no client and
\* nothing is sent, UpdateHashRate(0) keeps it waiting, a SubmitShare received
\* while waiting is dropped without effect, cancellation while waiting makes
\* run return Ok with no client ever created, and the initial difficulty
\* handed to the client is the one computed from the first non-zero hashrate.
C12_PreConnectGate ==
    /\ src_pc = "waiting" =>
          /\ ~client.spawned
          /\ rates.shape = "none"
          /\ expected_hashrate = 0
          /\ src_state = None
          /\ event_tx = <<>> /\ client_command_tx = <<>>
    /\ client.spawned =>
          /\ rates.first # 0
          /\ client.initial_difficulty # None
          /\ client.initial_difficulty = compute_suggested_difficulty(rates.first)
    /\ src_last.pc = "waiting" =>
          /\ src_last.out = <<>>
          /\ src_last.state = None /\ src_last.last = None
          /\ (src_last.op = "SubmitShare") =>
                src_pc = "waiting" /\ last_suggested_difficulty = None
          /\ (src_last.op = "UpdateHashRate" /\ src_last.arg = 0) =>
                src_pc = "waiting" /\ last_suggested_difficulty = None
          /\ (src_last.op = "UpdateHashRate" /\ src_last.arg # 0) =>
                /\ client.spawned
                /\ rates.first = src_last.arg
                /\ src_pc # "waiting"
          /\ (src_last.op = "shutdown") =>
                /\ src_pc = "returned" /\ src_result = Some("Ok")
                /\ ~client.spawned
    /\ (src_pc = "returned" /\ ~client.spawned) => src_result = Some("Ok")

\* The first non-zero hashrate ends the wait: the client is spawned with the
\* difficulty computed from it.
C12_Witness ==
    /\ src_last.pc = "waiting"
    /\ src_last.op = "UpdateHashRate"
    /\ src_last.arg = MaxHashRate
    /\ src_pc = "running"
    /\ client.spawned
    /\ client.initial_difficulty = Some(MaxHashRate \div HashRateScale)

\* The last step handled a NewJob while the pool's last word on the session
\* was Subscribed.
NewJobWhileSubscribed == src_last.op = "NewJob" /\ pool.session = "subscribed"

\* The events handed to the scheduler by the last step: one job event of the
\* kind its clean_jobs flag asks for when `translates` holds of a NewJob, one
\* ClearJobs for a Disconnected, nothing for any other step; and the event
\* handed over last is the newest one in the scheduler's channel.
OneForOneInOrder(translates) ==
    /\ (NewJobWhileSubscribed /\ translates) =>
          /\ Len(src_last.out) = 1
          /\ src_last.out[1].kind =
                (IF src_last.arg.job.clean_jobs THEN "ReplaceJob" ELSE "UpdateJob")
          /\ src_last.out[1].template.id = src_last.arg.job.job_id
    /\ src_last.op = "Disconnected" => src_last.out = <<[kind |-> "ClearJobs"]>>
    /\ src_last.op \notin {"NewJob", "Disconnected"} => src_last.out = <<>>
    /\ Len(src_last.out) <= 1
    /\ (src_last.out # <<>> /\ event_tx # <<>>) =>
          event_tx[Len(event_tx)] = src_last.out[1]

\* The extranonce2 size assigned before the last step is one the miner
\* supports: 1 to 8 bytes.
SupportedSizeBefore ==
    /\ src_last.state # None
    /\ AsU8(src_last.state[1].extranonce2_size) \in 1..MAX_SIZE

BitOf(x, i) == (x \div (2 ^ i)) % 2

\* The u32 r has exactly the bits that the u32 a and the u32 b both have.
IsBitwiseAnd(r, a, b) ==
    \A k \in 1..2 : \A i \in 0..15 :
        BitOf(r[k], i) = 1 <=> (BitOf(a[k], i) = 1 /\ BitOf(b[k], i) = 1)

\* C14: share_to_submit_params gives version_bits if and only if a version
\* mask is authorised, and then version_bits = share.version & mask, also
\* when that is 0; job_id, ntime and nonce are copied unchanged; extranonce2
\* defaults to extranonce2_size zero bytes when the share has none; and the
\* conversion fails when there is no protocol state.
C14_SubmitParams ==
    (src_last.op = "SubmitShare" /\ src_last.pc = "running") =>
        LET share == src_last.arg
        IN IF src_last.state = None
           THEN src_last.result = "Err" /\ src_last.out = <<>>
           ELSE /\ src_last.result = "Ok"
                /\ Len(src_last.out) = 1
                /\ src_last.out[1].kind = "SubmitShare"
                /\ LET params == src_last.out[1].params
                       mask == src_last.state[1].version_mask
                       size == src_last.state[1].extranonce2_size
                   IN /\ params.version_bits # None <=> mask # None
                      /\ mask # None =>
                            IsBitwiseAnd(params.version_bits[1], share.version, mask[1])
                      /\ params.job_id = share.job_id
                      /\ params.ntime = share.time
                      /\ params.nonce = share.nonce
                      /\ share.extranonce2 = None =>
                            /\ Len(params.extranonce2) = size
                            /\ \A i \in 1..size : params.extranonce2[i] = 0
                      /\ share.extranonce2 # None =>
                            Len(params.extranonce2) = share.extranonce2[1].size

\* A share whose version has none of the authorised bits is submitted with
\* version_bits present and zero.
C14_Witness ==
    /\ src_last.op = "SubmitShare"
    /\ src_last.pc = "running"
    /\ src_last.state # None
    /\ src_last.state[1].version_mask = Some(U32(8191, 57344))
    /\ src_last.arg.version = U32(8192, 0)
    /\ src_last.arg.extranonce2 = None
    /\ Len(src_last.out) = 1
    /\ src_last.out[1].params.version_bits = Some(U32(0, 0))
    /\ src_last.out[1].params.extranonce2 = <<0, 0, 0, 0>>

\* The last step built a job template and handed it to the scheduler.
BuiltTemplate == src_last.op = "NewJob" /\ src_last.out # <<>>

\* The rollable bits of the authorisation the pool gave last: none when it
\* gave none or refused.
AuthorisedBits ==
    IF pool.mask = None \/ pool.mask = Some(None) THEN GeneralPurposeBits_none
    ELSE GeneralPurposeBits_from(pool.mask[1][1])

\* C15: after any sequence of VersionRollingConfigured, Subscribed and
\* VersionMaskSet events, the rollable-bit mask of each job template built is
\* the authorisation received last (the configure result or a later
\* set_version_mask), empty when the pool has not authorised rolling; and
\* Subscribed keeps the mask that a configure result stored before it.
C15_MaskInTemplate ==
    /\ BuiltTemplate =>
          src_last.out[1].template.version.gp_bits_mask = AuthorisedBits
    /\ (src_last.op = "Subscribed" /\ src_last.state # None) =>
          src_state[1].version_mask = src_last.state[1].version_mask

\* The target of the difficulty the pool set last: that of difficulty 1 when
\* it set none.
PoolTarget ==
    IF pool.difficulty = None THEN Difficulty_to_target(Difficulty_from(1))
    ELSE Difficulty_to_target(Difficulty_from(pool.difficulty[1]))

\* C16: every job template built after the pool's set_difficulty(d), and
\* before the next one, carries share_target = Difficulty::from(d).to_target(),
\* wherever that set_difficulty stood in the event stream; a template built
\* before any set_difficulty uses difficulty 1; a set_difficulty hands nothing
\* to the scheduler.
C16_ShareTarget ==
    /\ BuiltTemplate => src_last.out[1].template.share_target = PoolTarget
    /\ src_last.op = "DifficultyChanged" => src_last.out = <<>>

\* The difficulties that may have been suggested last.
SuggestedBefore == {None} \cup {Some(d) : d \in 1..MaxHashRate}

\* What the claim asks of maybe_suggest_difficulty for the hashrate `rate`
\* when `last` was suggested last: `sent` is what it sends and `kept` what it
\* keeps as the last suggested difficulty.
SuggestsOnMaterialChange(rate, last, sent, kept) ==
    LET new_diff == compute_suggested_difficulty(rate)
        material == /\ rate # 0
                    /\ \/ last = None
                       \/ new_diff[1] >= 2 * last[1]
                       \/ 2 * new_diff[1] <= last[1]
    IN /\ rate # 0 => new_diff # None /\ new_diff[1] >= 1
       /\ IF material
          THEN /\ sent = <<[kind |-> "SuggestDifficulty", difficulty |-> new_diff[1]]>>
               /\ kept = new_diff
          ELSE sent = <<>> /\ kept = last

\* C17: maybe_suggest_difficulty sends SuggestDifficulty(new) if and only if
\* the expected hashrate is non-zero and either nothing was suggested before
\* or new >= 2 * last_suggested or new <= 0.5 * last_suggested, new being the
\* difficulty computed from the hashrate (at least 1); when it sends,
\* last_suggested becomes new, otherwise it is unchanged and nothing is sent.
C17_MaterialChange ==
    /\ (src_last.op = "UpdateHashRate" /\ src_last.pc = "running") =>
          /\ expected_hashrate = src_last.arg
          /\ SuggestsOnMaterialChange(src_last.arg, src_last.last, src_last.out,
                                      last_suggested_difficulty)
    /\ \A last \in SuggestedBefore :
          LET r == maybe_suggest_difficulty(expected_hashrate, last)
          IN SuggestsOnMaterialChange(expected_hashrate, last, r.send, r.last)

\* A hashrate that halves the difficulty suggested last is suggested anew.
C17_Witness ==
    /\ src_last.op = "UpdateHashRate"
    /\ src_last.pc = "running"
    /\ src_last.last # None
    /\ Len(src_last.out) = 1
    /\ src_last.out[1].difficulty >= 1
    /\ 2 * src_last.out[1].difficulty = src_last.last[1]
    /\ last_suggested_difficulty = Some(src_last.out[1].difficulty)
    /\ client_command_tx = src_last.out

RECURSIVE CeilLog2Ratio(_, _)
\* ceil(log2(hi / lo)) for 0 < lo <= hi: the least k with lo * 2^k >= hi.
CeilLog2Ratio(hi, lo) == IF lo >= hi THEN 0 ELSE 1 + CeilLog2Ratio(hi, 2 * lo)

\* C18: for a non-decreasing or non-increasing sequence of non-zero hashrate
\* updates, the number of difficulties suggested, the first one included, is
\* at most 1 + ceil(log2(max / min)), max and min being the largest and the
\* smallest hashrate of the sequence.
C18_SuggestionBound ==
    rates.shape = "monotone" =>
        /\ rates.lo >= 1 /\ rates.lo <= rates.hi
        /\ rates.sent >= 1
        /\ rates.sent <= 1 + CeilLog2Ratio(rates.hi, rates.lo)

\* Three suggestions over a sequence of hashrates that only falls, as many
\* as the bound allows.
C18_Witness ==
    /\ rates.shape = "monotone"
    /\ rates.last = rates.lo
    /\ rates.lo < rates.hi
    /\ rates.sent = 3
    /\ rates.sent = 1 + CeilLog2Ratio(rates.hi, rates.lo)

\* The source has handled a Subscribed event and, later, the pool's
\* disconnect.
DisconnectedAfterSubscribe == pool.session = "lost"

\* C20: after the source has handled a Subscribed event and a later
\* disconnect, it goes through Backoff back to Connecting, waiting a delay
\* drawn from the initial nominal value: a source that was not shut down
\* is still there to make the next attempt, run has not returned.
C20_ReconnectsAfterDisconnect ==
    (DisconnectedAfterSubscribe /\ ~shutdown) => src_pc # "returned"

(***************************************************************************)
(* Properties of the reconnection backoff.                                 *)
(***************************************************************************)

\* min(initial * 2^(k-1), max)
NominalDelay(initial, max, k) == Min2(initial * 2 ^ (k - 1), max)

\* d lies in [lo, hi) seconds, or in [lo, hi] when the window is closed.
InWindow(d, lo_halves, hi_secs, closed) ==
    /\ 2 * d >= lo_halves * TicksPerSecond
    /\ IF closed THEN d <= Duration_from_secs(hi_secs)
                 ELSE d < Duration_from_secs(hi_secs)

\* The k-th delay since construction or the last reset is worked out from
\* the nominal delay min(initial * 2^(k-1), max), which never exceeds max,
\* and lies in its upper half, the nominal delay itself excluded unless the
\* window is closed; for (1 s, 60 s) the first four windows are 0.5..1,
\* 1..2, 2..4, 4..8 s and from the 7th call on the window is 30..60 s.
DelayWindow(closed) ==
    backoff_last.op = "next_delay" =>
        LET k == backoff_last.k
            nominal_k == NominalDelay(backoff.initial, backoff.max, k)
            d == backoff_last.delay
        IN /\ backoff_last.nominal = nominal_k
           /\ nominal_k <= backoff.max
           /\ 2 * d >= nominal_k
           /\ IF closed THEN d <= nominal_k ELSE d < nominal_k
           /\ (backoff.initial = Duration_from_secs(1)
                 /\ backoff.max = Duration_from_secs(60)) =>
                  /\ k = 1 => InWindow(d, 1, 1, closed)
                  /\ k = 2 => InWindow(d, 2, 2, closed)
                  /\ k = 3 => InWindow(d, 4, 4, closed)
                  /\ k = 4 => InWindow(d, 8, 8, closed)
                  /\ k >= 7 => InWindow(d, 60, 60, closed)

\* C19: the k-th call of next_delay() since construction or the last
\* reset() returns a delay d with nominal_k / 2 <= d < nominal_k, where
\* nominal_k = min(initial * 2^(k-1), max); for (1 s, 60 s) the first four
\* delays lie in [0.5,1), [1,2), [2,4), [4,8) s and from the 7th call on in
\* [30,60) s; the nominal delay never exceeds max; reset() makes the next
\* call behave like the first.
C19_DelayWindow == DelayWindow(FALSE)

\* The same with every window closed at its upper end.
BackoffClosedWindow == DelayWindow(TRUE)

(***************************************************************************)
(* Properties of the BM13xx command frames and of the dissector's decoder. *)
(***************************************************************************)

\* The frames the last feed_event decoded: the bytes decode consumed and
\* the command it returned.
DecodedFrames ==
    {[bytes |-> SubSeq(codec_last.calls[i].before, 1,
                       Len(codec_last.calls[i].before) - Len(codec_last.calls[i].after)),
      command |-> codec_last.calls[i].item.v]
        : i \in {j \in DOMAIN codec_last.calls : codec_last.calls[j].item.tag = "Some"}}

\* The register frames at hand: the ones decode accepted, and the one the
\* stream was encoded from.
RegisterFramesAtHand ==
    {f.bytes : f \in {d \in DecodedFrames : d.command.tag # "JobFull"}}
        \cup (IF codec_case.command # None /\ codec_case.command[1].tag # "JobFull"
              THEN {Command_encode(codec_case.command[1])} ELSE {})

\* The CRC-5 of all the bits of data but the last five.
Crc5OfLeadingBits(data) ==
    CrcBits(CRC5_POLY, CRC5_WIDTH, crc5(SubSeq(data, 1, Len(data) - 1)),
            [i \in 1..3 |-> BitOfByte(data[Len(data)], i - 1)], 3)

\* The trailing byte of a register frame is crc5 over type/flags..payload,
\* and crc5 of 52 05 00 00 is 0a.
TrailingCrc5 ==
    /\ \A f \in RegisterFramesAtHand : f[Len(f)] = crc5(Slice(f, 2, Len(f) - 1))
    /\ crc5(<<82, 5, 0, 0>>) = 10

RejectedFrames ==
    {SubSeq(codec_last.calls[i].before, 1, 2 + codec_last.calls[i].before[4])
        : i \in {j \in DOMAIN codec_last.calls :
                    codec_last.calls[j].why \in {"InvalidFrame", "InvalidRegisterAddress"}}}

\* The command of each value of the command bits 3..0.
CommandOfBits == <<"SetChipAddress", "WriteRegister", "ReadRegister", "ChainInactive">>

\* The trailing byte of a frame is the CRC-5 of what follows the preamble.
Crc5Right(f) == f[Len(f)] = crc5(Slice(f, 2, Len(f) - 1))

\* The two trailing bytes of a frame are the CRC-16, big-endian, of what
\* follows the preamble.
Crc16Right(f) ==
    U16FromBe(f[Len(f) - 1], f[Len(f)]) = crc16(Slice(f, 2, Len(f) - 2))

\* An accepted frame whose bit 6 is register_bit is a register frame: its
\* CRC-5 is right, its command is the one of bits 3..0 and the broadcast
\* flag of a register access is bit 4; any other accepted frame is a
\* JobFull of 82 bytes whose CRC-16 is right.
AcceptedByBit6(f, register_bit) ==
    IF (f.bytes[3] \div 64) % 2 = register_bit
    THEN /\ f.bytes[3] % 16 \in 0..3
         /\ f.command.tag = CommandOfBits[(f.bytes[3] % 16) + 1]
         /\ Crc5Right(f.bytes)
         /\ f.command.tag \in {"WriteRegister", "ReadRegister"} =>
               f.command.all = ((f.bytes[3] \div 16) % 2 = 1)
    ELSE /\ f.command.tag = "JobFull"
         /\ Len(f.bytes) = 88
         /\ JobFullBytes(f.command.job_data) = Slice(f.bytes, 4, 86)
         /\ Crc16Right(f.bytes)

\* A frame that must be accepted when bit 6 = register_bit marks register
\* frames: a register access of a known register or a unicast
\* SetChipAddress whose CRC-5 is right, or a work frame of 82 bytes whose
\* CRC-16 is right.
AcceptableByBit6(f, register_bit) ==
    IF (f[3] \div 64) % 2 = register_bit
    THEN /\ Crc5Right(f)
         /\ \/ f[3] % 16 = 0 /\ (f[3] \div 16) % 2 = 0 /\ Len(f) >= 5
            \/ f[3] % 16 = 1 /\ Len(f) >= 10 /\ f[6] \in RegisterAddresses
            \/ f[3] % 16 = 2 /\ Len(f) >= 6 /\ f[6] \in RegisterAddresses
    ELSE Len(f) = 88 /\ Crc16Right(f)

\* The decoder classifies frames by bit 6 of type/flags, register_bit
\* marking the register frames.
ClassifiedByBit6(register_bit) ==
    /\ \A f \in DecodedFrames : AcceptedByBit6(f, register_bit)
    /\ \A f \in RejectedFrames : ~AcceptableByBit6(f, register_bit)

CleanFrameFed ==
    /\ codec_case.command # None
    /\ codec_case.flip = 0
    /\ codec_case.stray = 0
    /\ wire = <<>>
    /\ codec_pc = "ready"

\* The whole stream, the encoded frame of a command with one bit flipped,
\* has gone through the dissector.
FlippedFrameFed ==
    /\ codec_case.command # None
    /\ codec_case.flip # 0
    /\ wire = <<>>

\* Decoding the encoded frame of a command yields the command again.
DecodeOfEncode == CleanFrameFed => frames = <<codec_case.command[1]>>

\* A frame with one bit flipped is not decoded as a command: whenever its
\* bytes are parsed, the CRC validation fails.
FlipDetected ==
    FlippedFrameFed =>
        /\ frames = <<>>
        /\ \A f \in RejectedFrames :
              ~crc_valid(f, is_work_frame(f[3])) \/ Len(f) < MIN_FRAME_LEN

\* C23: for every structurally valid command C (SetChipAddress,
\* WriteRegister, ReadRegister, ChainInactive, each unicast or broadcast as
\* the protocol allows, and JobFull), decoding the encoded frame yields C
\* again; and flipping any single bit in any byte of an encoded frame makes
\* CRC validation fail, so that the corrupted frame is not decoded as a
\* command.
C23_RoundTrip == DecodeOfEncode /\ FlipDetected

\* The round trip of every command but ChainInactive.
RoundTripButChainInactive ==
    (CleanFrameFed /\ codec_case.command[1].tag # "ChainInactive") =>
        frames = <<codec_case.command[1]>>

\* What decode calls an error: the branches that discard.
DecodeErrors == {"preamble", "InvalidFrame", "InvalidRegisterAddress"}

\* One decode call returns a complete valid frame and consumes exactly its
\* bytes, or asks for more bytes and consumes nothing, or discards exactly
\* one byte.
DecodeCallProgress(call) ==
    \/ /\ call.item.tag = "Some"
       /\ Len(call.before) >= 2 + call.before[4]
       /\ call.after = SubSeq(call.before, 3 + call.before[4], Len(call.before))
       /\ crc_valid(SubSeq(call.before, 1, 2 + call.before[4]),
                    is_work_frame(call.before[3]))
    \/ /\ call.item.tag = "None"
       /\ call.why = "more"
       /\ call.after = call.before
    \/ /\ call.item.tag = "None"
       /\ call.why \in DecodeErrors
       /\ call.before # <<>>
       /\ call.after = Tail(call.before)

\* No work frame shorter than its header passes the CRC check, whatever its
\* bytes: the frame would be 55 aa, type/flags, 03 and one more byte, and the
\* CRC-16 of no type/flags byte of a work frame starts with 03.
NoShortWorkFrame ==
    \A type_flags \in 0..255 :
        is_work_frame(type_flags) => crc16(<<type_flags>>) \div 256 # 3

\* C24: for every byte stream, the streaming decoder never panics and
\* always makes forward progress: each decode call on a buffer either
\* returns a complete valid frame and consumes exactly its bytes, or reports
\* that more bytes are needed without consuming anything, or discards
\* exactly one byte (bad preamble, bad CRC, unknown register address,
\* malformed length); a decode error never consumes more than one byte and
\* never leaves the buffer unchanged.
C24_DecoderProgress ==
    /\ codec_pc # "panicked"
    /\ \A i \in DOMAIN codec_last.calls :
          /\ codec_last.calls[i].item.tag # "Panic"
          /\ DecodeCallProgress(codec_last.calls[i])
    /\ codec_last.op = "new" => NoShortWorkFrame

\* A stray byte was discarded for its preamble, and the frame behind it was
\* decoded once complete: the last call of feed_event decoded it and then
\* asked for more.
C24_Witness ==
    /\ codec_case.stray = 1
    /\ codec_case.command # None
    /\ wire = <<>>
    /\ frames = <<codec_case.command[1]>>
    /\ Len(codec_last.calls) = 2
    /\ codec_last.calls[1].item.tag = "Some"
    /\ codec_last.calls[1].after = <<>>
    /\ codec_last.calls[2].why = "more"
    /\ dissector.buffer = <<>>

(***************************************************************************)
(* Properties of the backplane.                                            *)
(***************************************************************************)

\* The descriptors of the registry that match a device, by their place in
\* the order of registration.
MatchingDescriptors(device) ==
    {i \in DOMAIN registry : BoardPattern_matches(registry[i], device)}

\* The matching descriptor of the highest specificity, the one registered
\* first among equals.
BestDescriptor(device) ==
    registry[CHOOSE i \in MatchingDescriptors(device) :
                \A j \in MatchingDescriptors(device) :
                    \/ BoardPattern_specificity(registry[i])
                          > BoardPattern_specificity(registry[j])
                    \/ /\ BoardPattern_specificity(registry[i])
                            = BoardPattern_specificity(registry[j])
                       /\ i <= j]

\* C25: when several registered BoardDescriptors match a connected USB
\* device, the board is created by the matching descriptor with the highest
\* specificity, and among matching descriptors of equal specificity by the
\* one registered first; when no descriptor matches, board creation fails
\* with an error and nothing is stored or forwarded.
C25_HighestSpecificity ==
    backplane_last.op = "UsbDeviceConnected" =>
        IF MatchingDescriptors(backplane_last.event.device_info) = {}
        THEN /\ backplane_last.outcome = "NoBoardRegistered"
             /\ boards = backplane_last.boards_before
             /\ backplane_last.sent = <<>>
        ELSE backplane_last.desc = Some(BestDescriptor(backplane_last.event.device_info))

\* The same for a registry whose first matching descriptor is the most
\* specific one, and for the devices nothing is registered for.
FirstMatchOfOrderedRegistry ==
    (backplane_last.op = "UsbDeviceConnected"
        /\ \A i, j \in DOMAIN registry :
              i <= j => BoardPattern_specificity(registry[i])
                            >= BoardPattern_specificity(registry[j])) =>
        IF MatchingDescriptors(backplane_last.event.device_info) = {}
        THEN /\ backplane_last.outcome = "NoBoardRegistered"
             /\ boards = backplane_last.boards_before
             /\ backplane_last.sent = <<>>
        ELSE backplane_last.desc = Some(BestDescriptor(backplane_last.event.device_info))

\* The ports of the boards in the live board map.
PortsOfBoards == {boards[id].path : id \in DOMAIN boards}

\* A successful connect adds the board under its id.
ConnectStores ==
    (backplane_last.op = "UsbDeviceConnected" /\ backplane_last.outcome = "Stored") =>
        \E id \in DOMAIN boards :
            /\ boards[id].path = backplane_last.event.device_info.path
            /\ id = (IF backplane_last.event.device_info.serial_number = None
                     THEN "unknown"
                     ELSE backplane_last.event.device_info.serial_number[1])

\* C26: after any sequence of UsbDeviceConnected / UsbDeviceDisconnected
\* events, the backplane's live board map holds exactly the boards that are
\* currently connected, at most one per board id (serial number, else
\* "unknown"): a successful connect adds the board under its id, and
\* handling the disconnect of that device removes the entry.
C26_LiveBoards ==
    /\ ConnectStores
    /\ event_rx = <<>> => PortsOfBoards = live
    /\ backplane_last.op = "UsbDeviceDisconnected" =>
          backplane_last.event.device_path \notin PortsOfBoards

\* With every event handled, the boards still plugged in are in the map
\* unless a later board took their id.
LiveBoardsWithDistinctIds ==
    event_rx = <<>> =>
        \A path \in live :
            \/ path \in PortsOfBoards
            \/ \E id \in DOMAIN boards :
                  /\ boards[id].path # path
                  /\ boards[id].serial_number = attached[path][1].serial_number

(***************************************************************************)
(* Properties of the scheduler.                                            *)
(***************************************************************************)

\* The ranges the live threads hold, in the order of the threads.
RangesOfThreads == [i \in DOMAIN hash_threads |-> thread_task[hash_threads[i]][1].en2_range]

\* After ReplaceJob(job) every live thread holds a task of the job, and the
\* ranges of the threads lie in the job's range, do not overlap and make up
\* the job's range.
FannedOut(job) ==
    /\ scheduler_pc = "running"
    /\ \A i \in DOMAIN hash_threads :
          /\ thread_task[hash_threads[i]] # None
          /\ thread_task[hash_threads[i]][1].job_id = job.id
    /\ \A i \in DOMAIN hash_threads :
          /\ U64Le(job.extranonce2_range.min, RangesOfThreads[i].min)
          /\ U64Le(RangesOfThreads[i].max, job.extranonce2_range.max)
    /\ Partitions(RangesOfThreads, job.extranonce2_range)

\* C27: for every live thread t and every ReplaceJob(J) received from a
\* source, t receives a replace_work whose task's extranonce2 range is a
\* subset of J's extranonce2 range, the ranges given to different threads
\* do not overlap, and their union over all live threads equals J's range.
C27_FanOut ==
    (scheduler_last.op = "ReplaceJob" /\ hash_threads # <<>>) =>
        FannedOut(scheduler_last.job)

\* The same for the jobs whose extranonce2 has fewer than eight bytes, or
\* that go to one thread, on a target with 64-bit pointers.
FanOutBelowEightBytes ==
    (scheduler_last.op = "ReplaceJob" /\ hash_threads # <<>>
        /\ scheduler_last.pointer_width = 64
        /\ (scheduler_last.job.extranonce2_range.size < MAX_SIZE \/ Len(hash_threads) = 1)) =>
        FannedOut(scheduler_last.job)

(***************************************************************************)
(* Properties of the API.                                                  *)
(***************************************************************************)

\* The commands of the request that are in the channel or with the
\* scheduler.
RequestCommandsInFlight ==
    Len(SelectSeq(scheduler_cmd.queue, LAMBDA c : c.reply = "request"))
        + Len(SelectSeq(command_held, LAMBDA c : c.reply = "request"))

\* C28: PATCH /miner with paused = true sends exactly one PauseMining, with
\* paused = false exactly one ResumeMining, and with paused absent no
\* command. It answers 200 with the miner state only if no command was
\* needed or the scheduler replied Ok within 5 seconds; it answers 500 when
\* the command channel is closed, the reply sender is dropped, the reply is
\* an error, or no reply arrives within 5 seconds.
C28_PatchMiner ==
    /\ RequestCommandsInFlight <= 1
    /\ api_pc = "waiting" => api_waited <= REPLY_TIMEOUT_SECS
    /\ api_last.op = "patch_miner" =>
          /\ api_last.paused = None =>
                api_last.sent = <<>> /\ api_last.status = StatusOk
          /\ (api_last.paused = Some(TRUE) /\ api_last.outcome # "Closed") =>
                api_last.sent = <<PauseMining("request")>>
          /\ (api_last.paused = Some(FALSE) /\ api_last.outcome # "Closed") =>
                api_last.sent = <<ResumeMining("request")>>
          /\ api_last.outcome = "Closed" => api_last.sent = <<>>
          /\ api_last.status \in {StatusOk, StatusInternalServerError}
          /\ api_last.status = StatusOk =>
                /\ api_last.body = "MinerState"
                /\ \/ api_last.paused = None
                   \/ api_last.outcome = "Ok" /\ api_last.waited <= REPLY_TIMEOUT_SECS
          /\ api_last.outcome \in {"Closed", "Dropped", "Err", "Elapsed"} =>
                api_last.status = StatusInternalServerError
          /\ api_last.outcome = "Elapsed" => api_last.waited = REPLY_TIMEOUT_SECS

\* A request to resume was answered 500 after five seconds without a reply,
\* its one command still waiting in the channel.
C28_Witness ==
    /\ api_pc = "answered"
    /\ api_last.op = "patch_miner"
    /\ api_last.paused = Some(FALSE)
    /\ api_last.sent = <<ResumeMining("request")>>
    /\ api_last.outcome = "Elapsed"
    /\ api_last.waited = REPLY_TIMEOUT_SECS
    /\ api_last.status = StatusInternalServerError
    /\ RequestCommandsInFlight = 1

(***************************************************************************)
(* Properties of the control channel.                                      *)
(***************************************************************************)

\* The callers whose call is between the write of the packet and the return.
CallersReading == {c \in 1..MaxCallers : caller_pc[c] = "reading"}

\* The last call read a response within the timeout.
ResponseRead == channel_last.read # <<>>

\* C29: ControlChannel::send_packet gives each call the next packet id, the
\* ids being consecutive modulo 256 with one consumed per call, and returns
\* Ok(response) only if a response carrying that same id and no protocol error
\* is read within 1 second; a response with a different id yields InvalidData,
\* no response within 1 second yields TimedOut, the end of the stream yields
\* UnexpectedEof.  Callers are serialised: at most one call is between its
\* write and its return, it holds the mutex, its request carries the id handed
\* out last, and the response a call returns carries the id of that call's
\* own request.
C29_SendPacket ==
    /\ Cardinality(CallersReading) <= 1
    /\ \A c \in 1..MaxCallers :
          /\ (expected_id[c] # None) <=> (c \in CallersReading)
          /\ c \in CallersReading =>
                /\ channel_lock = Some(c)
                /\ next_id = U8WrappingIncrement(expected_id[c][1])
    /\ channel_last.op = "send_packet" =>
          /\ channel_last.id = (channel_last.previous_id + 1) % 256
          /\ CallersReading = {} => next_id = (channel_last.id + 1) % 256
          /\ channel_last.result.tag = "Ok" =>
                /\ ResponseRead
                /\ channel_last.result.v = channel_last.read[1]
                /\ channel_last.read[1].id = channel_last.id
                /\ ~channel_last.read[1].error
                /\ channel_last.waited <= RESPONSE_TIMEOUT_SECS
          /\ (ResponseRead /\ channel_last.read[1].id # channel_last.id) =>
                channel_last.result = ErrResult("InvalidData")
          /\ (~ResponseRead /\ ~channel_last.eof /\ channel_last.result # ErrResult("Write")) =>
                /\ channel_last.result = ErrResult("TimedOut")
                /\ channel_last.waited = RESPONSE_TIMEOUT_SECS
          /\ channel_last.result = ErrResult("TimedOut") => ~ResponseRead /\ ~channel_last.eof
          /\ channel_last.eof => channel_last.result = ErrResult("UnexpectedEof")

\* The id has wrapped from 255 to 0 and the call with id 0 got its response
\* while another caller waited for the mutex.
C29_Witness ==
    /\ channel_last.op = "send_packet"
    /\ channel_last.previous_op = "send_packet"
    /\ channel_last.id = 0
    /\ channel_last.previous_id = 255
    /\ channel_last.result.tag = "Ok"
    /\ \E c \in 1..MaxCallers : caller_pc[c] = "locking"

(***************************************************************************)
(* Properties of cancellation.                                             *)
(***************************************************************************)

\* ThermalController::run has returned.
ThermalRunReturned == thermal_run = "returned"

\* StratumV1Source::run has returned.
SourceRunReturned == src_pc = "returned"

\* C30: cancellation leads to termination. Once its CancellationToken is
\* cancelled, ThermalController::run eventually returns, and so does
\* StratumV1Source::run, under fair scheduling, whatever state the run is in
\* at that moment and without any further message from, or draining by, the
\* peers.
C30_CancellationTerminates ==
    /\ cancellation ~> ThermalRunReturned
    /\ shutdown ~> SourceRunReturned

\* The thermal controller is cancelled while a tick is suspended in
\* frequency_tx.send on the full channel.
ThermalCancelledInSend ==
    run_followed = "thermal" /\ cancellation /\ thermal_pc = "send" /\ ~ThermalRunReturned

\* The source is cancelled while handle_client_event is suspended in
\* event_tx.send on the full channel.
SourceCancelledInSend ==
    run_followed = "source" /\ shutdown /\ src_pc = "sending"

\* A cancelled run returns unless it comes to be suspended in a send.
ReturnsUnlessSuspended ==
    /\ cancellation ~> (ThermalRunReturned \/ thermal_pc = "send")
    /\ shutdown ~> (SourceRunReturned \/ src_pc = "sending")

(***************************************************************************)
(* Properties of Difficulty.                                               *)
(***************************************************************************)

\* The 256-bit number a is below b.
TargetBelow(a, b) == \E i \in 1..16 : a[i] < b[i] /\ \A j \in 1..(i - 1) : a[j] = b[j]

\* MAX_TARGET / (u64::MAX / 2) = 0xFFFF * (2^145 + 2^82 + 2^19)
TargetOfHalfU64Max == <<0, 0, 0, 0, 0, 1, 65534, 0, 0, 3, 65532, 0, 0, 7, 65528, 0>>

\* C31: the round trip of a difficulty is lossless. For every d constructed by
\* Difficulty::from(u64), 0 being treated as 1, or by from_target,
\* Difficulty::from_target(d.to_target()) == d; and the equality and the order
\* of two difficulties are the equality and the inverted order of their
\* targets.
C31_LosslessRoundTrip ==
    /\ difficulty_last.op = "round_trip" =>
          /\ difficulty_a = difficulty_last.before
          /\ Difficulty_eq(difficulty_a, difficulty_last.before)
          /\ Difficulty_to_target(difficulty_a) = difficulty_last.target
    /\ (difficulty_last.op = "from" /\ difficulty_last.diff = U64_ZERO) =>
          Difficulty_to_target(difficulty_a) = Target_MAX
    /\ (difficulty_last.op = "from" /\ difficulty_last.diff = U64_ONE) =>
          Difficulty_to_target(difficulty_a) = Target_MAX
    /\ difficulty_last.op = "cmp" =>
          /\ difficulty_last.eq <=>
                Difficulty_to_target(difficulty_a) = Difficulty_to_target(difficulty_b)
          /\ difficulty_last.cmp = "Equal" <=> difficulty_last.eq
          /\ difficulty_last.cmp = "Greater" <=>
                TargetBelow(Difficulty_to_target(difficulty_a),
                            Difficulty_to_target(difficulty_b))
          /\ difficulty_last.cmp = "Less" <=>
                TargetBelow(Difficulty_to_target(difficulty_b),
                            Difficulty_to_target(difficulty_a))

\* Difficulty::from(u64::MAX / 2) was found greater than
\* Difficulty::from(1000000).
C31_Witness ==
    /\ difficulty_last.op = "cmp"
    /\ difficulty_last.cmp = "Greater"
    /\ difficulty_a = Difficulty_from_target(TargetOfHalfU64Max)
    /\ Difficulty_to_target(difficulty_b)[4] = 4294
    /\ Difficulty_to_target(difficulty_b)[3] = 0

(***************************************************************************)
(* Properties of the temperature filter.                                   *)
(***************************************************************************)

\* The reading temp is outside [-20, 100], or the window is not empty and
\* temp is further than max_deviation_c from the mean of the window.
ToReject(window, max_deviation_c, temp) ==
    \/ temp < VALID_MIN_C
    \/ temp > VALID_MAX_C
    \/ /\ window # <<>>
       /\ Abs(temp * Len(window) - WindowSum(window)) > max_deviation_c * Len(window)

\* What the claim C32 says of the last call of consider and of the window.
ConsiderContract ==
    /\ filter_last.op = "consider" =>
          IF ToReject(filter_last.before, filter.max_deviation_c, filter_last.temp)
          THEN /\ filter_last.result = None
               /\ filter.window = filter_last.before
          ELSE /\ filter_last.result = Some(filter_last.temp)
               /\ filter.window # <<>>
               /\ filter.window[Len(filter.window)] = filter_last.temp
    /\ Len(filter.window) <= filter.window_size
    /\ filter.window = LastN(filter_accepted, filter.window_size)

\* C32: TemperatureFilter::consider(t) returns None and leaves the window
\* unchanged exactly when t is outside [-20, 100] or the window is not empty
\* and |t - mean(window)| > max_deviation_c; otherwise it returns Some(t) and
\* appends t, evicting the oldest reading, so that after any sequence of calls
\* the window holds at most window_size readings, the most recently accepted
\* ones in order.
C32_Consider == ConsiderContract

\* The same of the filters with a window size other than 0.
ConsiderOfSizedWindow == filter.window_size > 0 => ConsiderContract

\* A filter of window size 0 holds a reading.
ReadingInWindowOfSizeZero == filter.window_size = 0 /\ filter.window # <<>>

\* The sensor has come to hold a value and the filter has accepted it since.
HeldValueAccepted == sensor.held # None /\ sensor.accepted

\* C34: the filter cannot lock out for good. If the sensor keeps reporting the
\* same valid value v, then after finitely many calls consider(v) returns
\* Some(v), even when v is further than max_deviation_c from the mean of the
\* window.
C34_NoLockout == (sensor.held # None) ~> HeldValueAccepted

\* The sensor holds a value that the filter has just rejected for its
\* deviation from a full window.
HeldValueRejected ==
    /\ sensor.held # None
    /\ filter_last.op = "consider"
    /\ filter_last.temp = sensor.held[1]
    /\ filter_last.result = None
    /\ Len(filter.window) = filter.window_size

(***************************************************************************)
(* Properties of the thermal controller with a stalled consumer.           *)
(***************************************************************************)

\* C33: a slow or stalled consumer of the bounded frequency channel never
\* stops fan control. The controller goes on handling interval ticks, and with
\* them publishing a FanSpeedCommand and updating the thermal state for every
\* sample, even while the frequency channel is full: there is always a further
\* tick.
C33_FanControlGoesOn == ([]<>(tick.seq = 0)) /\ ([]<>(tick.seq = 1))

\* A tick is suspended in frequency_tx.send on the full channel.
TickSuspendedInSend == thermal_pc = "send" /\ Len(frequency_ch) = FreqCapacity

\* While no tick is suspended, there is always a further tick.
TicksUnlessSuspended ==
    /\ []<>(tick.seq = 0 \/ thermal_pc = "send")
    /\ []<>(tick.seq = 1 \/ thermal_pc = "send")

(***************************************************************************)
(* The path of the thermal state: properties.                              *)
(***************************************************************************)

\* The last tick found a sample and left the state where it was or one level
\* of severity away.
OneLevelPerTick ==
    tick.kind = "sample" =>
        /\ state_severity(current_state) - state_severity(tick.previous_state) <= 1
        /\ state_severity(tick.previous_state) - state_severity(current_state) <= 1

\* C40: a tick with a sample leaves the thermal state where it was or moves it
\* to an adjacent level of severity; the state is CRITICAL only when at least
\* three samples were taken since it was NORMAL, and NORMAL only when it was
\* never CRITICAL or at least three samples were taken since; and over a run
\* of ticks that find one temperature the state moves in one direction only
\* and no longer moves after the third tick of the run.
C40_OneLevelPerTick ==
    /\ OneLevelPerTick
    /\ current_state = "CRITICAL" => steady.since_normal >= SeverityLevels
    /\ current_state = "NORMAL" => steady.since_critical >= SeverityLevels
    /\ ~steady.moved_late
    /\ ~(steady.ups /\ steady.downs)

\* A run of ticks at one temperature took the state from NORMAL to CRITICAL
\* in three ticks, and a fourth tick at that temperature has been handled.
C40_Witness ==
    /\ tick.kind = "sample"
    /\ steady.n = MaxRun
    /\ steady.start = "NORMAL"
    /\ current_state = "CRITICAL"
    /\ steady.ups

\* A run of ticks at one temperature took the state from CRITICAL back to
\* NORMAL in three ticks.
BackToNormal ==
    /\ tick.kind = "sample"
    /\ steady.n = SeverityLevels
    /\ steady.start = "CRITICAL"
    /\ current_state = "NORMAL"
    /\ steady.downs

(***************************************************************************)
(* Extranonce2: the size of the search space.                              *)
(***************************************************************************)

\* The template before the last call covers every value of 8 bytes.
FullRangeBefore ==
    /\ en2_last.before # None
    /\ en2_last.before[1].min = U64_ZERO
    /\ en2_last.before[1].max = U64_MAX
    /\ en2_last.before[1].size = MAX_SIZE

\* C38: search_space() does not overflow and returns max - min + 1, the
\* number of values of the range, for every range that new or new_range can
\* construct, the full range of 8 bytes included; and split(n), n >= 2, of
\* that full range returns n ranges, as it does of any other range that
\* holds enough values.
C38_SearchSpaceExact ==
    /\ en2_last.op = "search_space" =>
          LET r == en2_last.before[1]
              out == en2_last.out
          IN /\ out.tag = "Ok"
             /\ out.v # U64_ZERO
             /\ U64WrappingSub(out.v, U64_ONE).v = U64WrappingSub(r.max, r.min).v
    /\ (en2_last.op = "split" /\ FullRangeBefore /\ en2_last.arg[1] >= 2) =>
          /\ en2_last.out.tag = "Some"
          /\ Len(en2_last.out.v) = en2_last.arg[1]

\* search_space() was called on the full range of 8 bytes.
SearchSpaceOfFullRange == en2_last.op = "search_space" /\ FullRangeBefore

\* search_space() of every range short of the full range of 8 bytes is exact.
SearchSpaceOfOtherRanges ==
    (en2_last.op = "search_space" /\ ~FullRangeBefore) =>
        LET r == en2_last.before[1]
            out == en2_last.out
        IN /\ out.tag = "Ok"
           /\ out.v # U64_ZERO
           /\ U64WrappingSub(out.v, U64_ONE).v = U64WrappingSub(r.max, r.min).v

(***************************************************************************)
(* TimestampedCodec: the arrays beside the buffer.                         *)
(***************************************************************************)

\* byte_timestamps and byte_errors are as long as the buffer.
SideArraysAsLong ==
    /\ Len(dissector.byte_timestamps) = Len(dissector.buffer)
    /\ Len(dissector.byte_errors) = Len(dissector.buffer)

\* Entry i of byte_timestamps is the timestamp of byte i of the buffer: the
\* buffer holds the bytes fed last and the timestamp of a byte is its place
\* in the capture.
TimestampsOfBuffer ==
    \A i \in 1..Len(dissector.buffer) :
        /\ i <= Len(dissector.byte_timestamps)
        /\ dissector.byte_timestamps[i] = fed - Len(dissector.buffer) + i

\* The frame reported last by the last call has the timestamp of its own
\* last byte, the byte before those that are left in the buffer.
TimestampOfFrame ==
    codec_last.results # <<>> =>
        codec_last.results[Len(codec_last.results)].timestamp
            = fed - Len(dissector.buffer)

\* The capture held a frame without framing errors, behind a stray byte or
\* not, and is fed to its end: the command was reported. ChainInactive,
\* which the decoder does not parse, is left aside.
CleanFrameReported ==
    (/\ codec_case.command # None
     /\ codec_case.flip = 0
     /\ codec_case.command[1].tag # "ChainInactive"
     /\ wire = <<>>
     /\ codec_pc = "ready") =>
        frames = <<codec_case.command[1]>>

\* C39: after every feed_event call byte_timestamps and byte_errors are as
\* long as the buffer and entry i describes byte i of the buffer; a reported
\* frame carries the timestamp of its own last byte; and a frame whose
\* bytes came without framing errors is reported, whatever the flags of the
\* bytes discarded before it.
C39_SideArraysParallel ==
    codec_last.op = "feed_event" =>
        /\ SideArraysAsLong
        /\ TimestampsOfBuffer
        /\ TimestampOfFrame
        /\ CleanFrameReported

\* A frame without framing errors that came behind a stray byte with one was
\* decoded and was not reported.
CleanFrameDropped ==
    /\ codec_case.stray = 1
    /\ codec_case.command # None
    /\ codec_case.command[1].tag # "ChainInactive"
    /\ wire = <<>>
    /\ \E i \in 1..Len(codec_last.calls) : codec_last.calls[i].item.tag = "Some"
    /\ frames = <<>>

(***************************************************************************)
(* Backplane: the boards whose threads were forwarded.                     *)
(***************************************************************************)

\* The board of the device plugged into `path` is in the board map.
BoardInMap(path) ==
    \E id \in DOMAIN boards :
        /\ boards[id].path = path
        /\ boards[id].serial_number = attached[path][1].serial_number

\* The last event was a connect whose board or whose threads could not be
\* created.
CreationFailed ==
    /\ backplane_last.op = "UsbDeviceConnected"
    /\ backplane_last.outcome \in {"NoBoardRegistered", "Factory", "NoThreads"}

\* A failed creation leaves the board map as it was and sends nothing.
FailedCreationKeepsMap ==
    CreationFailed =>
        /\ boards = backplane_last.boards_before
        /\ backplane_last.sent = <<>>

\* C35: every board whose hash threads were forwarded to the scheduler and
\* whose device is still plugged in is in the board map, whatever devices
\* were connected after it, with the same serial number or with none; and a
\* failed creation of a board or of its threads leaves the map unchanged.
C35_BoardsKept ==
    /\ \A path \in live : BoardInMap(path)
    /\ FailedCreationKeepsMap

\* Two boards are plugged in, the threads of both were forwarded, and the
\* map holds one of them.
BoardReplaced ==
    /\ Cardinality(live) = 2
    /\ Cardinality(DOMAIN boards) = 1
    /\ backplane_last.outcome = "Stored"

\* A board that is kept out of the map has the id of the board last stored.
BoardsKeptButSameId ==
    \A path \in live :
        \/ BoardInMap(path)
        \/ \E id \in DOMAIN boards :
              /\ boards[id].path # path
              /\ boards[id].serial_number = attached[path][1].serial_number

(***************************************************************************)
(* Control channel: after a timeout.                                       *)
(***************************************************************************)

\* The last call returned TimedOut.
CallTimedOut == channel_last.op = "send_packet" /\ channel_last.result = ErrResult("TimedOut")

\* The last call read the response to its own request.
CallPaired ==
    /\ channel_last.op = "send_packet"
    /\ channel_last.read # <<>>
    /\ channel_last.read[1].id = channel_last.id

\* C36: with a device that answers every request exactly once, and in time
\* once a call has timed out, a call that returned TimedOut is followed, some
\* time later, by a call that reads the response to its own request.
C36_Resynchronises == CallTimedOut ~> CallPaired

\* Once a call has timed out, every call that returns afterwards has read the
\* response to the request before its own and returned InvalidData.
PoisonedAfterTimeout ==
    (timed_out /\ ~CallTimedOut) =>
        /\ channel_last.result = ErrResult("InvalidData")
        /\ channel_last.read # <<>>
        /\ U8WrappingIncrement(channel_last.read[1].id) = channel_last.id

\* A call that came after the timeout has returned InvalidData.
CallAfterTimeoutMismatched ==
    /\ timed_out
    /\ channel_last.op = "send_packet"
    /\ channel_last.result = ErrResult("InvalidData")

(***************************************************************************)
(* The source and its coordinator: no deadlock on the two channels.        *)
(***************************************************************************)

\* The source is suspended sending an event on the full event channel.
SourceBlocked == src_pc = "sending" /\ Len(event_tx) = EventCapacity

\* The coordinator is suspended in submit_share on the full command channel.
CoordinatorBlocked ==
    coordinator_pc = "submitting" /\ Len(command_rx) = SourceCommandCapacity

\* C37: in no reachable state is the source suspended sending an event on
\* the full event channel while the coordinator is suspended in
\* SourceHandle::submit_share on the full command channel.
C37_NoDeadlock == ~(SourceBlocked /\ CoordinatorBlocked)

\* Once both are suspended they stay so: neither channel is read again.
BlockedForGood == [][(SourceBlocked /\ CoordinatorBlocked)
                       => (SourceBlocked /\ CoordinatorBlocked)']_vars

\* The source is suspended while the coordinator is at its select, where it
\* can take the event that makes room.
SourceBlockedAlone == SourceBlocked /\ coordinator_pc = "select"

====
